---- MODULE Spec2Model ----
(***************************************************************************)
(* A model of the GenerAfrica live-performance controller:                 *)
(*   - LyriaClient  (src/lyria-client.js): the generation session protocol *)
(*   - AudioPlayer  (src/unnamed/part_000): the streaming playback         *)
(*     scheduler                                                           *)
(*   - MidiManager  (src/unnamed/part_001): the controller mappings and    *)
(*     their store                                                         *)
(*   - PercussionJamApp (src/app-sdk.js): the connection to the service    *)
(*     and the handlers that write on its session                          *)
(* Numbers that are fractions in the source (density, brightness, weights, *)
(* bpm) are fixed-point hundredths: 0.73 is 73, 1.0 is 100, 140 bpm is     *)
(* 14000.  The audio clock is counted in sample frames at the player's     *)
(* sample rate (48000 frames = 1 s); the times the player computes from it *)
(* are double-precision numbers of seconds, kept as a number of frames     *)
(* and the rounding error of the double.  The gain is in ten-thousandths.  *)
(***************************************************************************)
EXTENDS Integers, Sequences, FiniteSets, TLC

(***************************************************************************)
(* Bounds of the model.                                                    *)
(***************************************************************************)
MaxConnects == 2      \* connect() calls, hence transports and promises
MaxSends    == 2      \* caller messages submitted to send()
MaxBlobs    == 1      \* Blob payloads whose text() read is still pending

Transports == 1..MaxConnects

(***************************************************************************)
(* LyriaClient state.                                                      *)
(***************************************************************************)
\* the keys a client is constructed with: one that goes into a URL, and a
\* string with a lone surrogate
ApiKeys == {"key", "lone surrogate"}

VARIABLES
    apiKey,           \* this.apiKey
    ws,               \* this.ws: the current transport (0 is null)
    readyState,       \* WebSocket.readyState of every transport created
    wire,             \* what ws.send() has written to each transport
    isConnected,
    isPlaying,
    isSetupComplete,
    messageQueue,
    connectResolve,   \* promise the stored resolve belongs to (0 is null)
    connectReject,    \* promise the stored reject belongs to (0 is null)
    promise,          \* state of the promise each connect() returned
    callbacks,        \* the callback slots that hold a function
    currentConfig,
    currentPrompts,
    pendingBlobs,     \* Blob payloads received, text() not yet resolved
    hung,             \* the event loop is stuck inside a handler
    closePending,     \* transports whose error event has fired and whose
                      \* close event is still to come
    \* history variables
    emitted,          \* callback invocations of the latest step
    lastEvent,        \* what a specification observes of the latest step
    nConnects,        \* connect() calls so far
    nSent             \* caller messages submitted so far

clientVars == <<apiKey, ws, readyState, wire, isConnected, isPlaying, isSetupComplete,
                messageQueue, connectResolve, connectReject, promise,
                callbacks, currentConfig, currentPrompts, pendingBlobs, hung,
                closePending, emitted, lastEvent, nConnects, nSent>>

\* the client's own state, without the observation of the latest step
sessionVars == <<apiKey, ws, readyState, wire, isConnected, isPlaying,
                 isSetupComplete, messageQueue, connectResolve, connectReject,
                 promise, callbacks, currentConfig, currentPrompts,
                 pendingBlobs, hung, closePending, emitted, nConnects, nSent>>

LYRIA_MODEL == "models/lyria-realtime-exp"

CallbackSlots == {"audioChunk", "stateChange", "error", "close"}

(***************************************************************************)
(* Small helpers.                                                          *)
(***************************************************************************)
Min(a, b) == IF a < b THEN a ELSE b
Max(a, b) == IF a > b THEN a ELSE b

\* { ...a, ...b }: object spread, the fields of b win
Spread(a, b) ==
    [f \in (DOMAIN a) \cup (DOMAIN b) |-> IF f \in DOMAIN b THEN b[f] ELSE a[f]]

\* an outbound message with its history tag: tag is the submission number of
\* a caller message (0 for the setup message), pre tells whether it was
\* submitted before the handshake was complete
Envelope(m, tag, pre) == [msg |-> m, tag |-> tag, pre |-> pre]

(***************************************************************************)
(* base64ToArrayBuffer.  A base64 string is a sequence of one-character    *)
(* strings, the decoded buffer a sequence of bytes.  atob is the forgiving *)
(* base64 decoder of the platform: ASCII whitespace is removed first,      *)
(* padding is optional, a character outside the alphabet or a length of 1  *)
(* modulo 4 raises.                                                        *)
(***************************************************************************)
B64Chars == <<
    "A", "B", "C", "D", "E", "F", "G", "H", "I", "J", "K", "L", "M", "N", "O", "P",
    "Q", "R", "S", "T", "U", "V", "W", "X", "Y", "Z", "a", "b", "c", "d", "e", "f",
    "g", "h", "i", "j", "k", "l", "m", "n", "o", "p", "q", "r", "s", "t", "u", "v",
    "w", "x", "y", "z", "0", "1", "2", "3", "4", "5", "6", "7", "8", "9", "+", "/"
>>

IsB64Char(c) == \E i \in 1..Len(B64Chars) : B64Chars[i] = c
B64Value(c) == (CHOOSE i \in 1..Len(B64Chars) : B64Chars[i] = c) - 1

\* ASCII whitespace: tab, line feed, form feed, carriage return, space
AsciiWhitespace == {"\t", "\n", "\f", "\r", " "}

StripWhitespace(s) == SelectSeq(s, LAMBDA c : c \notin AsciiWhitespace)

StripPadding(s) ==
    IF Len(s) % 4 = 0 /\ Len(s) >= 2 /\ s[Len(s)] = "=" /\ s[Len(s) - 1] = "="
    THEN SubSeq(s, 1, Len(s) - 2)
    ELSE IF Len(s) % 4 = 0 /\ Len(s) >= 1 /\ s[Len(s)] = "="
         THEN SubSeq(s, 1, Len(s) - 1)
         ELSE s

atobThrows(s) ==
    LET d == StripPadding(StripWhitespace(s))
    IN  Len(d) % 4 = 1 \/ \E i \in 1..Len(d) : ~IsB64Char(d[i])

RECURSIVE DecodeGroups(_)
DecodeGroups(d) ==
    IF Len(d) < 2 THEN <<>>
    ELSE LET n == Min(4, Len(d))
             v(i) == IF i <= n THEN B64Value(d[i]) ELSE 0
             bits == v(1) * 262144 + v(2) * 4096 + v(3) * 64 + v(4)
             bytes == <<bits \div 65536, (bits \div 256) % 256, bits % 256>>
         IN  SubSeq(bytes, 1, n - 1) \o DecodeGroups(SubSeq(d, n + 1, Len(d)))

\* the binary string atob returns, as its character codes
atob(s) == DecodeGroups(StripPadding(StripWhitespace(s)))

\* bytes[i] = binaryString.charCodeAt(i), stored in a Uint8Array
base64ToArrayBuffer(base64) ==
    LET binaryString == atob(base64)
    IN  [i \in 1..Len(binaryString) |-> binaryString[i] % 256]

(***************************************************************************)
(* send, processQueue and the callback notifications.  rs is the           *)
(* readyState of the transports at the time of the call, w and q the wire  *)
(* and the queue the call starts from.                                     *)
(***************************************************************************)
\* this.ws && this.ws.readyState === WebSocket.OPEN
TransportOpen(rs) == ws # 0 /\ rs[ws] = "OPEN"

\* WebSocket.send on transport t: it raises InvalidStateError while the
\* transport is connecting, writes when it is open and discards the data
\* silently when it is closing or closed
WebSocket_send(rs, t) ==
    CASE rs[t] = "CONNECTING" -> "InvalidStateError"
      [] rs[t] = "OPEN" -> "written"
      [] OTHER -> "discarded"

\* what a call of send does on whatever transport this.ws holds
Transmit(rs, w, q, message) ==
    LET outcome == WebSocket_send(rs, ws)
    IN  [wire |-> IF outcome = "written"
                  THEN [w EXCEPT ![ws] = Append(@, message)] ELSE w,
         queue |-> q,
         returned |-> outcome # "InvalidStateError",
         raised |-> outcome = "InvalidStateError"]

\* send that tests only this.ws, not its readyState
send_Unguarded(rs, w, q, message) ==
    IF ws # 0
    THEN Transmit(rs, w, q, message)
    ELSE [wire |-> w, queue |-> Append(q, message), returned |-> FALSE,
          raised |-> FALSE]

send(rs, w, q, message) ==
    IF TransportOpen(rs)
    THEN Transmit(rs, w, q, message)
    ELSE [wire |-> w, queue |-> Append(q, message), returned |-> FALSE,
          raised |-> FALSE]

\* while (queue.length > 0) send(queue.shift()): with the transport open the
\* queue drains in order; with a non-empty queue and no open transport every
\* message shifted is pushed back and the loop never ends
processQueue(rs, w, q) ==
    IF q = <<>>
    THEN [wire |-> w, queue |-> q, hangs |-> FALSE]
    ELSE IF TransportOpen(rs)
         THEN [wire |-> [w EXCEPT ![ws] = @ \o q], queue |-> <<>>,
               hangs |-> FALSE]
         ELSE [wire |-> w, queue |-> q, hangs |-> TRUE]

Invocation(slot, arg) == [cb |-> slot, arg |-> arg]

notifyStateChange(state) ==
    IF "stateChange" \in callbacks
    THEN <<Invocation("stateChange", state)>> ELSE <<>>

notifyError(error) ==
    IF "error" \in callbacks THEN <<Invocation("error", error)>> ELSE <<>>

notifyClose ==
    IF "close" \in callbacks THEN <<Invocation("close", "event")>> ELSE <<>>

\* settle a promise: only a pending promise changes state
Settle(pr, k, outcome) ==
    IF k # 0 /\ pr[k] = "pending" THEN [pr EXCEPT ![k] = outcome] ELSE pr

(***************************************************************************)
(* Inbound payloads.  The text handed to handleMessage either parses to a  *)
(* message object or does not; a message object is a record holding the    *)
(* parts that are present, as in the wire protocol.                        *)
(***************************************************************************)
Has(obj, field) == field \in DOMAIN obj

\* a JavaScript value whose type or truthiness the code inspects carries its
\* type
JsString(s) == [type |-> "string", value |-> s]
JsBoolean(b) == [type |-> "boolean", value |-> b]
JsNumber(n) == [type |-> "number", value |-> n]
JsNull == [type |-> "null"]
JsObject(o) == [type |-> "object", value |-> o]
JsArray(items) == [type |-> "array", items |-> items]

\* the value converted to a boolean, as `if (v)` and `v || w` do: "", false,
\* 0 and null are falsy, every object and array is truthy
Truthy(v) ==
    CASE v.type = "string" -> v.value # ""
      [] v.type = "boolean" -> v.value
      [] v.type = "number" -> v.value # 0
      [] v.type = "null" -> FALSE
      [] OTHER -> TRUE

Text(message) == [parses |-> TRUE, value |-> message]
Garbage == [parses |-> FALSE]

GoodChunk  == [data |-> <<"A", "Q", "I", "D">>]           \* bytes 1 2 3
PaddedChunk == [data |-> <<"/", "w", "=", "=">>]          \* byte 255
BadChunk   == [data |-> <<"A", "Q", "!", "D">>]           \* not base64
SpacedChunk == [data |-> <<"A", "Q", " ", "I", "\n", "D">>]   \* bytes 1 2 3
EmptyChunk == [data |-> <<>>]                             \* data: ""
BareChunk  == [mimeType |-> "audio/l16"]                  \* no data

SetupAck == <<>>                                          \* setupComplete: {}

InboundMessages == {
    [setupComplete |-> SetupAck],
    [setupComplete |-> SetupAck,
     serverContent |-> [audioChunks |-> <<GoodChunk>>,
                        generationState |-> "PLAYING"],
     error |-> JsObject([message |-> JsString("quota")])],
    [serverContent |-> [audioChunks |-> <<GoodChunk>>,
                        generationState |-> "PLAYING"]],
    [serverContent |-> [audioChunks |-> <<GoodChunk, BareChunk, PaddedChunk>>,
                        generationState |-> "PLAYING"],
     warning |-> "slow"],
    [serverContent |-> [audioChunks |-> <<PaddedChunk, EmptyChunk>>,
                        generationState |-> "PAUSED"],
     filteredPrompt |-> JsObject([text |-> "x"])],
    [serverContent |-> [audioChunks |-> <<GoodChunk, BadChunk, GoodChunk>>,
                        generationState |-> "PLAYING"]],
    [serverContent |-> [generationState |-> "STOPPED"]],
    [error |-> JsObject([code |-> 13])],
    [filteredPrompt |-> JsString(""),
     error |-> JsObject([message |-> JsString("")])],
    [filteredPrompt |-> JsBoolean(FALSE), error |-> JsString("quota")],
    [serverContent |-> [audioChunks |-> <<SpacedChunk>>],
     filteredPrompt |-> JsString("blocked"), error |-> JsNull]
}

InboundPayloads == {Text(m) : m \in InboundMessages} \cup {Garbage}

\* message.serverContent?.audioChunks
AudioChunksOf(message) ==
    IF Has(message, "serverContent") /\ Has(message.serverContent, "audioChunks")
    THEN message.serverContent.audioChunks ELSE <<>>

\* message.serverContent?.generationState
GenerationStateOf(message) ==
    IF Has(message, "serverContent")
       /\ Has(message.serverContent, "generationState")
    THEN message.serverContent.generationState ELSE "none"

\* chunk.data && this.callbacks.onAudioChunk
Deliverable(chunk) ==
    Has(chunk, "data") /\ chunk.data # <<>> /\ "audioChunk" \in callbacks

\* the loop over the chunks: the callback invocations made, and whether the
\* decoding of a chunk raised (which ends the handling of the message)
RECURSIVE AudioPart(_)
AudioPart(chunks) ==
    IF chunks = <<>> THEN [calls |-> <<>>, threw |-> FALSE]
    ELSE LET chunk == Head(chunks)
         IN  IF ~Deliverable(chunk) THEN AudioPart(Tail(chunks))
             ELSE IF atobThrows(chunk.data)
                  THEN [calls |-> <<>>, threw |-> TRUE]
                  ELSE LET rest == AudioPart(Tail(chunks))
                       IN  [calls |-> <<Invocation("audioChunk",
                                          base64ToArrayBuffer(chunk.data))>>
                                      \o rest.calls,
                            threw |-> rest.threw]

\* the generation-state part: the new isPlaying and the notification
GenerationStatePart(state, playing) ==
    IF state = "PLAYING"
    THEN [isPlaying |-> TRUE, calls |-> notifyStateChange("playing")]
    ELSE IF state = "PAUSED"
    THEN [isPlaying |-> FALSE, calls |-> notifyStateChange("paused")]
    ELSE IF state = "STOPPED"
    THEN [isPlaying |-> FALSE, calls |-> notifyStateChange("stopped")]
    ELSE [isPlaying |-> playing, calls |-> <<>>]

\* if (message.filteredPrompt)
IsFiltered(message) ==
    Has(message, "filteredPrompt") /\ Truthy(message.filteredPrompt)

FilteredPromptPart(message) ==
    IF IsFiltered(message)
    THEN notifyError("Prompt was filtered by safety system") ELSE <<>>

\* if (message.error)
IsError(message) == Has(message, "error") /\ Truthy(message.error)

\* message.error.message || 'Server error': the message when the error is an
\* object holding a truthy one
ErrorText(error) ==
    IF error.type = "object" /\ Has(error.value, "message")
                             /\ Truthy(error.value.message)
    THEN error.value.message.value ELSE "Server error"

ErrorPart(message) ==
    IF IsError(message) THEN notifyError(ErrorText(message.error)) ELSE <<>>

\* the parts of a message without setupComplete, in the order of the code
ContentParts(message, playing) ==
    LET audio == AudioPart(AudioChunksOf(message))
        gen   == GenerationStatePart(GenerationStateOf(message), playing)
    IN  IF audio.threw
        THEN [isPlaying |-> playing, calls |-> audio.calls]
        ELSE [isPlaying |-> gen.isPlaying,
              calls |-> audio.calls \o gen.calls
                        \o FilteredPromptPart(message) \o ErrorPart(message)]

\* whether the setup-complete branch is taken (and the handler returns)
IsSetupComplete(message) == Has(message, "setupComplete")

(***************************************************************************)
(* Caller inputs.                                                          *)
(***************************************************************************)
DefaultConfig ==
    [bpm |-> 12000, density |-> 50, brightness |-> 50,
     scale |-> "SCALE_UNSPECIFIED", muteDrums |-> FALSE, muteBass |-> FALSE,
     onlyBassAndDrums |-> FALSE]

\* Math.round: the nearest integer, halves towards +Infinity
MathRound(x) == ((x + 50) \div 100) * 100

\* Math.max(0, Math.min(1, x))
Clamp01(x) == Max(0, Min(100, x))

CopiedFields == {"bpm", "density", "brightness", "scale", "muteDrums",
                 "muteBass", "onlyBassAndDrums"}

\* the configObj that setMusicGenerationConfig(config) builds
ConfigObj(config) ==
    LET keys == (CopiedFields \cap DOMAIN config)
                \cup (IF Has(config, "mode") THEN {"musicGenerationMode"}
                      ELSE {})
    IN  [k \in keys |->
            CASE k = "bpm" -> MathRound(config.bpm)
              [] k = "density" -> Clamp01(config.density)
              [] k = "brightness" -> Clamp01(config.brightness)
              [] k = "musicGenerationMode" -> config.mode
              [] OTHER -> config[k]]

\* one entry of weightedPrompts: text and weight of a prompt
\* (p.weight || 1.0: a missing weight and a weight of 0 both give 1.0)
PromptEntry(p) ==
    IF p.type = "string"
    THEN [text |-> p.value, weight |-> 100]
    ELSE LET w == IF Has(p.value, "weight") /\ p.value.weight # 0
                  THEN p.value.weight ELSE 100
         IN  IF Has(p.value, "text")
             THEN [text |-> p.value.text, weight |-> w]
             ELSE [weight |-> w]

\* if (!Array.isArray(prompts)) prompts = [prompts]
AsArray(prompts) ==
    IF prompts.type = "array" THEN prompts.items ELSE <<prompts>>

WeightedPromptsMessage(prompts) ==
    [clientContent |->
        [weightedPrompts |->
            [i \in 1..Len(AsArray(prompts)) |-> PromptEntry(AsArray(prompts)[i])]]]

(***************************************************************************)
(* Initial state: a client just constructed.                               *)
(***************************************************************************)
NoEvent == [type |-> "none"]

\* new LyriaClient(key)
ClientConstructed(key) ==
    /\ apiKey = key
    /\ ws = 0
    /\ readyState = [t \in Transports |-> "NONE"]
    /\ wire = [t \in Transports |-> <<>>]
    /\ isConnected = FALSE
    /\ isPlaying = FALSE
    /\ isSetupComplete = FALSE
    /\ messageQueue = <<>>
    /\ connectResolve = 0
    /\ connectReject = 0
    /\ promise = [t \in Transports |-> "none"]
    /\ callbacks = {}
    /\ currentConfig = DefaultConfig
    /\ currentPrompts = <<>>
    /\ pendingBlobs = <<>>
    /\ hung = FALSE
    /\ closePending = {}
    /\ emitted = <<>>
    /\ lastEvent = NoEvent
    /\ nConnects = 0
    /\ nSent = 0

ClientInit == \E key \in ApiKeys : ClientConstructed(key)

(***************************************************************************)
(* LyriaClient operations called by the application.                       *)
(***************************************************************************)
\* on(event, callback)
LyriaClient_on(event) ==
    /\ ~hung
    /\ event \notin callbacks
    /\ callbacks' = callbacks \cup {event}
    /\ emitted' = <<>>
    /\ UNCHANGED <<ws, readyState, wire, isConnected, isPlaying,
                   isSetupComplete, messageQueue, connectResolve,
                   connectReject, promise, currentConfig, currentPrompts,
                   pendingBlobs, hung, nConnects, apiKey, closePending, nSent>>

\* encodeURIComponent(this.apiKey) raises a URIError on a lone surrogate
UrlRaises(key) == key = "lone surrogate"

\* connect(): a new promise and, unless building the URL raises, a new
\* transport with the handlers attached
LyriaClient_connect ==
    /\ ~hung
    /\ nConnects < MaxConnects
    /\ LET k == nConnects + 1
       IN  /\ nConnects' = k
           /\ connectResolve' = k
           /\ connectReject' = k
           /\ IF UrlRaises(apiKey)
              THEN \* buildWebSocketUrl() raises: catch, reject(error)
                   /\ promise' = [promise EXCEPT ![k] = "rejected"]
                   /\ UNCHANGED <<ws, readyState>>
              ELSE /\ promise' = [promise EXCEPT ![k] = "pending"]
                   /\ ws' = k
                   /\ readyState' = [readyState EXCEPT ![k] = "CONNECTING"]
    /\ emitted' = <<>>
    /\ UNCHANGED <<wire, isConnected, isPlaying, isSetupComplete,
                   messageQueue, callbacks, currentConfig, currentPrompts,
                   pendingBlobs, hung, closePending, nSent, apiKey>>

\* the send(message) that ends every caller operation
Submit(method, message) ==
    LET r == send(readyState, wire, messageQueue,
                  Envelope(message, nSent + 1, ~isSetupComplete))
    IN  /\ ~hung
        /\ nSent < MaxSends
        /\ nSent' = nSent + 1
        /\ wire' = r.wire
        /\ messageQueue' = r.queue
        /\ emitted' = <<>>
        /\ UNCHANGED <<ws, readyState, isConnected, isPlaying,
                       isSetupComplete, connectResolve, connectReject,
                       promise, callbacks, pendingBlobs, hung, nConnects, apiKey,
                   closePending>>

LyriaClient_setWeightedPrompts(prompts) ==
    /\ currentPrompts' = AsArray(prompts)
    /\ Submit("setWeightedPrompts", WeightedPromptsMessage(prompts))
    /\ UNCHANGED currentConfig

LyriaClient_setMusicGenerationConfig(config) ==
    /\ currentConfig' = Spread(currentConfig, config)
    /\ Submit("setMusicGenerationConfig",
              [musicGenerationConfig |-> ConfigObj(config)])
    /\ UNCHANGED currentPrompts

\* play() that marks the session as playing at once, without waiting for
\* the generation state from the service
LyriaClient_play_Optimistic ==
    LET r == send(readyState, wire, messageQueue,
                  Envelope([playbackControl |-> "PLAY"], nSent + 1,
                           ~isSetupComplete))
    IN  /\ ~hung
        /\ nSent < MaxSends
        /\ nSent' = nSent + 1
        /\ wire' = r.wire
        /\ messageQueue' = r.queue
        /\ isPlaying' = TRUE
        /\ emitted' = notifyStateChange("playing")
        /\ UNCHANGED <<ws, readyState, isConnected, isSetupComplete,
                       connectResolve, connectReject, promise, callbacks,
                       pendingBlobs, hung, nConnects, apiKey,
                   closePending, currentConfig,
                       currentPrompts>>

LyriaClient_play ==
    /\ Submit("play", [playbackControl |-> "PLAY"])
    /\ UNCHANGED <<currentConfig, currentPrompts>>

LyriaClient_pause ==
    /\ Submit("pause", [playbackControl |-> "PAUSE"])
    /\ UNCHANGED <<currentConfig, currentPrompts>>

LyriaClient_stop ==
    /\ Submit("stop", [playbackControl |-> "STOP"])
    /\ UNCHANGED <<currentConfig, currentPrompts>>

LyriaClient_resetContext ==
    /\ Submit("resetContext", [playbackControl |-> "RESET_CONTEXT"])
    /\ UNCHANGED <<currentConfig, currentPrompts>>

\* disconnect(): close() the transport, forget it, clear the flags
LyriaClient_disconnect ==
    /\ ~hung
    /\ readyState' = IF ws # 0 /\ readyState[ws] \in {"CONNECTING", "OPEN"}
                     THEN [readyState EXCEPT ![ws] = "CLOSING"]
                     ELSE readyState
    /\ ws' = 0
    /\ isConnected' = FALSE
    /\ isPlaying' = FALSE
    /\ isSetupComplete' = FALSE
    /\ emitted' = <<>>
    /\ UNCHANGED <<wire, messageQueue, connectResolve, connectReject,
                   promise, callbacks, currentConfig, currentPrompts,
                   pendingBlobs, hung, nConnects, apiKey, closePending, nSent>>

(***************************************************************************)
(* Transport event handlers.  The handlers of a transport stay attached to *)
(* it for its whole life and act on the client, whatever this.ws is when   *)
(* they run.                                                               *)
(***************************************************************************)
\* handleMessage(data): everything it changes
handleMessage(data) ==
    LET message == data.value
        flush   == processQueue(readyState, wire, messageQueue)
        content == ContentParts(message, isPlaying)
    IN  IF ~data.parses
        THEN \* JSON.parse raises; the catch logs
                /\ emitted' = <<>>
                /\ UNCHANGED <<isSetupComplete, isPlaying, wire, messageQueue,
                               hung, promise, connectResolve, connectReject>>
           ELSE IF IsSetupComplete(message)
           THEN /\ isSetupComplete' = TRUE
                /\ emitted' = notifyStateChange("connected")
                /\ wire' = flush.wire
                /\ messageQueue' = flush.queue
                /\ hung' = flush.hangs
                /\ IF flush.hangs
                   THEN UNCHANGED <<promise, connectResolve, connectReject>>
                   ELSE /\ promise' = Settle(promise, connectResolve, "resolved")
                        /\ connectResolve' = 0
                        /\ connectReject' =
                               IF connectResolve # 0 THEN 0 ELSE connectReject
                /\ UNCHANGED isPlaying
           ELSE /\ isPlaying' = content.isPlaying
                /\ emitted' = content.calls
                /\ UNCHANGED <<isSetupComplete, wire, messageQueue, hung,
                               promise, connectResolve, connectReject>>

\* ws.onopen that flushes the queue before it sends the setup message
ws_onopen_FlushFirst(t) ==
    /\ ~hung
    /\ readyState[t] = "CONNECTING"
    /\ readyState' = [readyState EXCEPT ![t] = "OPEN"]
    /\ isConnected' = TRUE
    /\ emitted' = notifyStateChange("connecting")
    /\ LET q == IF TransportOpen(readyState')
                THEN processQueue(readyState', wire, messageQueue)
                ELSE [wire |-> wire, queue |-> messageQueue]
           r == send(readyState', q.wire, q.queue,
                     Envelope([setup |-> [model |-> LYRIA_MODEL]], 0,
                              ~isSetupComplete))
       IN  /\ wire' = r.wire
           /\ messageQueue' = r.queue
    /\ UNCHANGED <<ws, isPlaying, isSetupComplete, connectResolve,
                   connectReject, promise, callbacks, currentConfig,
                   currentPrompts, pendingBlobs, hung, nConnects, apiKey,
                   closePending, nSent>>

\* ws.onopen
ws_onopen(t) ==
    /\ ~hung
    /\ readyState[t] = "CONNECTING"
    /\ readyState' = [readyState EXCEPT ![t] = "OPEN"]
    /\ isConnected' = TRUE
    /\ emitted' = notifyStateChange("connecting")
    /\ LET r == send(readyState', wire, messageQueue,
                     Envelope([setup |-> [model |-> LYRIA_MODEL]], 0,
                              ~isSetupComplete))
       IN  /\ wire' = r.wire
           /\ messageQueue' = r.queue
    /\ UNCHANGED <<ws, isPlaying, isSetupComplete, connectResolve,
                   connectReject, promise, callbacks, currentConfig,
                   currentPrompts, pendingBlobs, hung, nConnects, apiKey,
                   closePending, nSent>>

\* ws.onmessage with a string payload: handled at once
ws_onmessage_string(t, data) ==
    /\ ~hung
    /\ readyState[t] = "OPEN"
    /\ handleMessage(data)
    /\ UNCHANGED <<ws, readyState, isConnected, callbacks, currentConfig,
                   currentPrompts, pendingBlobs, nConnects, apiKey,
                   closePending, nSent>>

\* ws.onmessage with a Blob payload: the handler awaits data.text()
ws_onmessage_blob(t, data) ==
    /\ ~hung
    /\ readyState[t] = "OPEN"
    /\ Len(pendingBlobs) < MaxBlobs
    /\ pendingBlobs' = Append(pendingBlobs, data)
    /\ emitted' = <<>>
    /\ UNCHANGED <<ws, readyState, wire, isConnected, isPlaying,
                   isSetupComplete, messageQueue, connectResolve,
                   connectReject, promise, callbacks, currentConfig,
                   currentPrompts, hung, nConnects, apiKey, closePending, nSent>>

\* the continuation of ws.onmessage once data.text() has resolved
ws_onmessage_resume ==
    /\ ~hung
    /\ pendingBlobs # <<>>
    /\ pendingBlobs' = Tail(pendingBlobs)
    /\ handleMessage(Head(pendingBlobs))
    /\ UNCHANGED <<ws, readyState, isConnected, callbacks, currentConfig,
                   currentPrompts, nConnects, apiKey, closePending, nSent>>

\* ws.onerror: the connection has failed, while it was being established,
\* while it was open or while it was closing (close() on a transport that
\* is still connecting always ends this way).  The platform has set the
\* transport to CLOSED when the event fires; its close event follows
ws_onerror(t) ==
    /\ ~hung
    /\ readyState[t] \in {"CONNECTING", "OPEN", "CLOSING"}
    /\ readyState' = [readyState EXCEPT ![t] = "CLOSED"]
    /\ closePending' = closePending \cup {t}
    /\ emitted' = notifyError("Connection error - check your API key")
    /\ promise' = Settle(promise, connectReject, "rejected")
    /\ connectReject' = 0
    /\ connectResolve' = IF connectReject # 0 THEN 0 ELSE connectResolve
    /\ UNCHANGED <<ws, wire, isConnected, isPlaying, isSetupComplete,
                   messageQueue, callbacks, currentConfig, currentPrompts,
                   pendingBlobs, hung, nConnects, apiKey, nSent>>

\* ws.onclose: the close event of a transport that closed without an error,
\* or the one that follows its error event
ws_onclose(t) ==
    /\ ~hung
    /\ readyState[t] \in {"CONNECTING", "OPEN", "CLOSING"} \/ t \in closePending
    /\ readyState' = [readyState EXCEPT ![t] = "CLOSED"]
    /\ closePending' = closePending \ {t}
    /\ isConnected' = FALSE
    /\ isPlaying' = FALSE
    /\ isSetupComplete' = FALSE
    /\ emitted' = notifyStateChange("disconnected") \o notifyClose
    /\ promise' = Settle(promise, connectReject, "rejected")
    /\ connectReject' = 0
    /\ connectResolve' = IF connectReject # 0 THEN 0 ELSE connectResolve
    /\ UNCHANGED <<ws, wire, messageQueue, callbacks, currentConfig,
                   currentPrompts, pendingBlobs, hung, nConnects, apiKey, nSent>>

(***************************************************************************)
(* Inputs of the caller operations.                                        *)
(***************************************************************************)
PromptInputs == {
    JsString("afrobeat drums"),
    JsArray(<<JsObject([text |-> "djembe", weight |-> 0]),
              JsObject([text |-> "shaker"])>>)
}

ConfigInputs == {
    [density |-> 73],
    [bpm |-> 14000],
    [bpm |-> 14050, scale |-> "C_MAJOR_A_MINOR"],
    [density |-> 150, brightness |-> -20],
    [bpm |-> -4050],
    [muteDrums |-> TRUE, mode |-> "QUALITY"]
}

(***************************************************************************)
(* AudioPlayer state.  The clock of the audio context counts sample        *)
(* frames; timers set with setTimeout run on the wall clock, which the     *)
(* audio clock does not follow (the context can be suspended), so a        *)
(* pending timer may fire at any moment.  The gain is in ten-thousandths   *)
(* (1.0 is 10000) and the times of its automation are in frames.           *)
(***************************************************************************)
MaxChunks == 3        \* chunks scheduled by processAudioChunk
MaxStops  == 2        \* stop() calls, hence teardown timers
MaxTicks  == 4        \* steps of ClockStep frames the clock of a context makes

VARIABLES
    audioContext,     \* "null", or the state of the context
    contextRequest,   \* the resume() or suspend() the context has been
                      \* asked for and has not completed ("none" without)
    gainNode,         \* whether this.gainNode is set
    gainValue,        \* gainNode.gain.value: the value of the gain in the
                      \* quantum rendered last
    gain,             \* the automation of gainNode.gain: the value set
                      \* last and, when a ramp to 0 is scheduled from it,
                      \* the frame it was set at and the frame the ramp
                      \* ends at (0 and -1 without a ramp)
    currentTime,      \* the frame counter behind audioContext.currentTime
    nextStartTime,    \* a time in seconds, as the code holds it
    scheduledBuffers, \* tracked segments: [source, endTime]
    isStopping,
    stopTimeout,      \* this._stopTimeout: a timer id, 0 when unset
    timers,           \* ids of the setTimeout timers still pending
    \* history variables
    lastSegment,      \* the segment scheduled last since the last
                      \* hardStop() or teardown: start, end, the clock read,
                      \* whether the call found a stall, and the end of the
                      \* segment before it (NoTime when there is none since
                      \* the last stop(), hardStop() or teardown)
    resetSince,       \* stop(), hardStop() or a teardown ran since then
    nChunks,          \* segments scheduled so far
    stoppedSources,   \* sources on which stop() was called
    teardowns,        \* ids of the timers whose teardown has run
    hardStopMark,     \* number of timers created when hardStop() last ran
    nStops            \* timers created so far

playerVars == <<audioContext, contextRequest, gainNode, gain, gainValue, currentTime,
                nextStartTime, scheduledBuffers, isStopping, stopTimeout,
                timers, lastSegment, resetSince, nChunks, stoppedSources,
                teardowns, hardStopMark, nStops>>

sampleRate == 48000
channels == 2

(***************************************************************************)
(* Times in seconds.  The code keeps them as binary floating-point         *)
(* numbers (IEEE 754 doubles).  A time is the record [frame, err]: the     *)
(* number frame / sampleRate + err * 2^-68 / 375 seconds, where frame is   *)
(* the nearest whole frame.  One frame is 2^61 units of err, and the       *)
(* doubles from 1500 * 2^(j-11) to 1500 * 2^(j-10) frames are the          *)
(* multiples of 375 * 2^j units, for j = 0..17: every time up to 192000    *)
(* frames is held exactly.                                                 *)
(***************************************************************************)
\* sampleRate = 2^7 * OddPart
OddPart == sampleRate \div 128

\* 2^n modulo OddPart, for n up to 61, in three factors that fit an int
Pow2Mod(n) ==
    LET a == (2^(n \div 3)) % OddPart
        b == (2^(n - 2 * (n \div 3))) % OddPart
    IN  (((a * a) % OddPart) * b) % OddPart

Zero == [frame |-> 0, err |-> 0]
NoTime == [frame |-> -1, err |-> 0]

\* a < b
Before(a, b) == a.frame < b.frame \/ (a.frame = b.frame /\ a.err < b.err)

\* the exponent range the number t lies in: the j with
\* 1500 * 2^(j-11) <= t < 1500 * 2^(j-10), in frames
Binade(t) ==
    LET x == t.frame * 2048 + (IF t.err < 0 THEN -1 ELSE 0)
    IN  CHOOSE j \in 0..17 : 1500 * 2^j <= x /\ x < 3000 * 2^j

\* how far the number t lies above a multiple of 375 * 2^j units
Residue(t, j) ==
    (2^j * (((t.frame % OddPart) * Pow2Mod(61 - j)) % OddPart) + t.err)
        % (OddPart * 2^j)

\* t moved to the nearest multiple of ulp, r above the multiple below it;
\* halfway, to the even multiple: the one below when r2, the distance of t
\* above a multiple of 2 * ulp, is r
Nearest(t, ulp, r, r2) ==
    IF 2 * r < ulp \/ (2 * r = ulp /\ r2 < ulp)
    THEN [t EXCEPT !.err = t.err - r]
    ELSE [t EXCEPT !.err = t.err - r + ulp]

RoundIn(t, j) == Nearest(t, OddPart * 2^j, Residue(t, j), Residue(t, j + 1))

\* the double nearest to the number t, ties to the even significand
Fl(t) == IF t.frame = 0 THEN t ELSE RoundIn(t, Binade(t))

\* frames / sampleRate: what audioContext.currentTime and
\* audioBuffer.duration return for a count of frames
Seconds(frames) == Fl([frame |-> frames, err |-> 0])

\* a + b
Plus(a, b) == Fl([frame |-> a.frame + b.frame, err |-> a.err + b.err])

\* the literal 0.05 of currentTime + 0.05
LeadIn == Seconds((5 * sampleRate) \div 100)

\* the default of stop(fadeDuration = 0.5), in frames
fadeDuration == sampleRate \div 2

\* the clock is read every 100 ms
ClockStep == sampleRate \div 10

\* gain.value = 1.0 on the gain node of a new context
UnityGain == [value |-> 10000, at |-> 0, end |-> -1]

\* the value the automation g gives the gain in a quantum rendered at the
\* frame t
GainAt(g, t) ==
    IF g.end = -1 THEN g.value
    ELSE IF t >= g.end THEN 0
    ELSE (g.value * (g.end - t)) \div (g.end - g.at)

\* the gain after setValueAtTime(value, t) with no ramp left: value from
\* t on
SetValue(value) == [value |-> value, at |-> 0, end |-> -1]

\* gain.setValueAtTime(value, t) on the automation g as it is: a ramp
\* that has not ended goes on, from value at t
SetValueAtTime(g, value, t) ==
    IF g.end # -1 /\ t < g.end
    THEN [value |-> value, at |-> t, end |-> g.end]
    ELSE SetValue(value)

NoSegment == [start |-> NoTime, endTime |-> NoTime, now |-> NoTime,
              stalled |-> FALSE, prevEnd |-> NoTime]

\* the fields the constructor sets, the context and the gain node apart
PlayerFields ==
    /\ contextRequest = "none"
    /\ gain = UnityGain
    /\ gainValue = UnityGain.value
    /\ currentTime = 0
    /\ nextStartTime = Zero
    /\ scheduledBuffers = <<>>
    /\ isStopping = FALSE
    /\ stopTimeout = 0
    /\ timers = {}
    /\ lastSegment = NoSegment
    /\ resetSince = TRUE
    /\ nChunks = 0
    /\ stoppedSources = {}
    /\ teardowns = {}
    /\ hardStopMark = 0
    /\ nStops = 0

PlayerInit ==
    /\ audioContext = "null"
    /\ gainNode = FALSE
    /\ PlayerFields

\* the player after its first init(): a context, suspended or running,
\* with its gain node at unity gain
PlayerInitialised ==
    /\ audioContext \in {"suspended", "running"}
    /\ gainNode = TRUE
    /\ PlayerFields

(***************************************************************************)
(* Decoding a chunk: the number of frames of the buffer created for a      *)
(* chunk of byteLength bytes, 0 when the conversion raises.                *)
(***************************************************************************)
\* new Int16Array(pcmData) raises on an odd byteLength; createBuffer raises
\* on a length of 0
ChunkRaises(byteLength) ==
    byteLength % 2 # 0 \/ (byteLength \div 2) \div channels = 0

\* a buffer length rounded up: the last frame has a sample for one channel
\* only
BufferLength_RoundsUp(byteLength) ==
    ((byteLength \div 2) + channels - 1) \div channels

\* numSamples = int16Array.length / channels; createBuffer truncates a
\* fractional length
BufferLength(byteLength) == (byteLength \div 2) \div channels

\* cleanupBuffers with the filter's result inverted: the finished segments
\* are the ones kept
cleanupBuffers_Inverted(buffers, now) ==
    SelectSeq(buffers, LAMBDA item : Before(item.endTime, now))

\* cleanupBuffers(currentTime): keep the segments that have not ended
cleanupBuffers(buffers, now) ==
    SelectSeq(buffers, LAMBDA item : ~Before(item.endTime, now))

\* scheduleBuffer with the stall test written <=: a call that finds
\* nextStartTime exactly at the clock inserts a lead-in
StartTime_StallAtEqual(next, now) ==
    IF Before(next, now) \/ next = now THEN Plus(now, LeadIn) ELSE next

\* scheduleBuffer without the lead-in: after a stall the segment starts at
\* the clock
StartTime_NoLeadIn(next, now) == IF Before(next, now) THEN now ELSE next

\* the start time scheduleBuffer chooses
StartTime(next, now) == IF Before(next, now) THEN Plus(now, LeadIn) ELSE next

(***************************************************************************)
(* AudioPlayer operations.                                                 *)
(***************************************************************************)
\* init() without its guard: every call builds a new context and new nodes
AudioPlayer_init_Unguarded ==
    /\ audioContext' \in {"suspended", "running"}
    /\ contextRequest' = "none"
    /\ gainNode' = TRUE
    /\ gain' = UnityGain
    /\ gainValue' = UnityGain.value
    /\ currentTime' = 0
    /\ UNCHANGED <<nextStartTime, scheduledBuffers, isStopping, stopTimeout,
                   timers, lastSegment, resetSince, nChunks, stoppedSources,
                   teardowns, hardStopMark, nStops>>

\* init(): `if (this.audioContext) return;`, otherwise a new context, which
\* starts suspended or running, with its analyser and gain node
AudioPlayer_init ==
    IF audioContext # "null"
    THEN UNCHANGED playerVars
    ELSE /\ audioContext' \in {"suspended", "running"}
         /\ contextRequest' = "none"
         /\ gainNode' = TRUE
         /\ gain' = UnityGain
         /\ gainValue' = UnityGain.value
         /\ currentTime' = 0
         /\ UNCHANGED <<nextStartTime, scheduledBuffers, isStopping,
                        stopTimeout, timers, lastSegment, resetSince, nChunks,
                        stoppedSources, teardowns, hardStopMark, nStops>>

\* resume(): a suspended context is asked to resume; its state changes
\* when the request completes, which the call awaits
AudioPlayer_resume ==
    /\ contextRequest' = IF audioContext = "suspended" THEN "resume"
                         ELSE contextRequest
    /\ UNCHANGED <<audioContext, gainNode, gain, gainValue, currentTime, nextStartTime,
                   scheduledBuffers, isStopping, stopTimeout, timers,
                   lastSegment, resetSince, nChunks, stoppedSources,
                   teardowns, hardStopMark, nStops>>

\* pause(): a running context is asked to suspend
AudioPlayer_pause ==
    /\ contextRequest' = IF audioContext = "running" THEN "suspend"
                         ELSE contextRequest
    /\ UNCHANGED <<audioContext, gainNode, gain, gainValue, currentTime, nextStartTime,
                   scheduledBuffers, isStopping, stopTimeout, timers,
                   lastSegment, resetSince, nChunks, stoppedSources,
                   teardowns, hardStopMark, nStops>>

\* the platform completes the request made by resume() or suspend()
ContextRequestCompletes ==
    /\ contextRequest # "none"
    /\ audioContext' = IF contextRequest = "resume" THEN "running"
                       ELSE "suspended"
    /\ contextRequest' = "none"
    /\ UNCHANGED <<gainNode, gain, gainValue, currentTime, nextStartTime,
                   scheduledBuffers, isStopping, stopTimeout, timers,
                   lastSegment, resetSince, nChunks, stoppedSources,
                   teardowns, hardStopMark, nStops>>

\* the audio clock of a running context advances: the context has rendered
\* up to the new time, with the gain its automation gives there
ClockAdvance(frames) ==
    /\ audioContext = "running"
    /\ currentTime + frames <= MaxTicks * ClockStep
    /\ currentTime' = currentTime + frames
    /\ gainValue' = GainAt(gain, currentTime')
    /\ UNCHANGED <<audioContext, contextRequest, gainNode, gain,
                   nextStartTime, scheduledBuffers, isStopping, stopTimeout,
                   timers, lastSegment, resetSince, nChunks, stoppedSources,
                   teardowns, hardStopMark, nStops>>

\* what scheduleBuffer records of a segment: the new end of the timeline
\* and, for the history, the segment with the clock read
Schedule(now, start, end) ==
    /\ nextStartTime' = end
    /\ lastSegment' =
           [start |-> start, endTime |-> end, now |-> now,
            stalled |-> Before(nextStartTime, now),
            prevEnd |-> IF resetSince THEN NoTime ELSE lastSegment.endTime]
    /\ resetSince' = FALSE
    /\ nChunks' = nChunks + 1

\* scheduleBuffer(audioBuffer) that tracks the new segment and never calls
\* cleanupBuffers
scheduleBuffer_NoCleanup(now, start, duration) ==
    /\ Schedule(now, start, Plus(start, duration))
    /\ scheduledBuffers' =
           Append(scheduledBuffers,
                  [source |-> nChunks + 1, endTime |-> nextStartTime'])

\* scheduleBuffer(audioBuffer), from the clock it reads, the start time it
\* chooses and audioBuffer.duration
scheduleBuffer(now, start, duration) ==
    /\ Schedule(now, start, Plus(start, duration))
    /\ scheduledBuffers' =
           cleanupBuffers(
               Append(scheduledBuffers,
                      [source |-> nChunks + 1, endTime |-> nextStartTime']),
               now)

\* the clock scheduleBuffer reads
Now == Seconds(currentTime)

\* processAudioChunk(pcmData): dropped without a context or during a fade
AudioPlayer_processAudioChunk(byteLength) ==
    /\ nChunks < MaxChunks
    /\ IF audioContext = "null" \/ isStopping \/ ChunkRaises(byteLength)
       THEN UNCHANGED <<nextStartTime, scheduledBuffers, lastSegment,
                        resetSince, nChunks>>
       ELSE scheduleBuffer(Now, StartTime(nextStartTime, Now),
                           Seconds(BufferLength(byteLength)))
    /\ UNCHANGED <<audioContext, contextRequest, gainNode, gain, gainValue, currentTime,
                   isStopping, stopTimeout, timers, stoppedSources, teardowns,
                   hardStopMark, nStops>>

\* Math.max(0, Math.min(1, value))
ClampVolume(value) == Max(0, Min(UnityGain.value, value))

\* setVolume(value): nothing without a gain node; with the gain node of a
\* context that destroy() has closed, reading the clock raises
AudioPlayer_setVolume(value) ==
    /\ gain' = IF gainNode /\ audioContext # "null"
               THEN SetValueAtTime(gain, ClampVolume(value), currentTime)
               ELSE gain
    /\ UNCHANGED <<audioContext, contextRequest, gainNode, gainValue, currentTime,
                   nextStartTime, scheduledBuffers, isStopping, stopTimeout,
                   timers, lastSegment, resetSince, nChunks, stoppedSources,
                   teardowns, hardStopMark, nStops>>

\* what stop() does when it does not return at once: the ramp starts from
\* gain.value as the code reads it back, which is the value of the quantum
\* rendered last and not what setValueAtTime has scheduled since
BeginFade ==
    /\ nStops < MaxStops
    /\ isStopping' = TRUE
    /\ gain' = [value |-> gainValue, at |-> currentTime,
                end |-> currentTime + fadeDuration]
    /\ nStops' = nStops + 1
    /\ stopTimeout' = nStops + 1
    /\ timers' = timers \cup {nStops + 1}
    /\ resetSince' = TRUE

\* stop()
AudioPlayer_stop ==
    IF audioContext = "null" \/ ~gainNode
    THEN UNCHANGED playerVars
    ELSE /\ BeginFade
         /\ UNCHANGED <<audioContext, contextRequest, gainNode, gainValue,
                        currentTime, nextStartTime, scheduledBuffers,
                        lastSegment, nChunks, stoppedSources, teardowns,
                        hardStopMark>>

\* the sources of the tracked segments, all stopped and disconnected
SourcesOf(buffers) == {buffers[i].source : i \in 1..Len(buffers)}

\* cancelScheduledValues and setValueAtTime(1.0) at the clock, when there
\* are a gain node and a context
RestoreGain ==
    IF gainNode /\ audioContext # "null"
    THEN SetValue(UnityGain.value)
    ELSE gain

\* the teardown without `this.nextStartTime = 0`: the segments are dropped
\* and the timeline goes on from the end of the last one
StopTimeoutFires_KeepsNextStart(id) ==
    /\ id \in timers
    /\ timers' = timers \ {id}
    /\ teardowns' = teardowns \cup {id}
    /\ stoppedSources' = stoppedSources \cup SourcesOf(scheduledBuffers)
    /\ scheduledBuffers' = <<>>
    /\ gain' = RestoreGain
    /\ isStopping' = FALSE
    /\ resetSince' = TRUE
    /\ lastSegment' = NoSegment
    /\ UNCHANGED <<audioContext, contextRequest, gainNode, gainValue, currentTime,
                   nextStartTime, stopTimeout, nChunks,
                   hardStopMark, nStops>>

\* the callback of the timer set by stop(): the teardown
StopTimeoutFires(id) ==
    /\ id \in timers
    /\ timers' = timers \ {id}
    /\ teardowns' = teardowns \cup {id}
    /\ stoppedSources' = stoppedSources \cup SourcesOf(scheduledBuffers)
    /\ scheduledBuffers' = <<>>
    /\ nextStartTime' = Zero
    /\ gain' = RestoreGain
    /\ isStopping' = FALSE
    /\ resetSince' = TRUE
    /\ lastSegment' = NoSegment
    /\ UNCHANGED <<audioContext, contextRequest, gainNode, gainValue, currentTime,
                   stopTimeout, nChunks, hardStopMark, nStops>>

\* hardStop() that leaves the gain node as the fade set it
AudioPlayer_hardStop_KeepsGain ==
    /\ timers' = IF stopTimeout # 0 THEN timers \ {stopTimeout} ELSE timers
    /\ stopTimeout' = 0
    /\ isStopping' = FALSE
    /\ stoppedSources' = stoppedSources \cup SourcesOf(scheduledBuffers)
    /\ scheduledBuffers' = <<>>
    /\ nextStartTime' = Zero
    /\ resetSince' = TRUE
    /\ lastSegment' = NoSegment
    /\ hardStopMark' = nStops
    /\ UNCHANGED <<audioContext, contextRequest, gainNode, gain, gainValue, currentTime,
                   nChunks, teardowns, nStops>>

\* hardStop()
AudioPlayer_hardStop ==
    /\ timers' = IF stopTimeout # 0 THEN timers \ {stopTimeout} ELSE timers
    /\ stopTimeout' = 0
    /\ isStopping' = FALSE
    /\ stoppedSources' = stoppedSources \cup SourcesOf(scheduledBuffers)
    /\ scheduledBuffers' = <<>>
    /\ nextStartTime' = Zero
    /\ gain' = RestoreGain
    /\ resetSince' = TRUE
    /\ lastSegment' = NoSegment
    /\ hardStopMark' = nStops
    /\ UNCHANGED <<audioContext, contextRequest, gainNode, gainValue, currentTime,
                   nChunks, teardowns, nStops>>

\* getState()
AudioPlayer_getState ==
    [isInitialized |-> audioContext # "null",
     state |-> IF audioContext = "null" THEN "uninitialized" ELSE audioContext,
     sampleRate |-> sampleRate,
     scheduledBuffers |-> Len(scheduledBuffers)]

(***************************************************************************)
(* The visualization loop of the AudioPlayer.  A callback is identified by *)
(* the startVisualization call that registered it (0 for null); a frame    *)
(* request by its number (0 for a null animationFrameId).  The callback is *)
(* application code: it may call stopVisualization while it runs.          *)
(***************************************************************************)
MaxFrames == 6        \* requestAnimationFrame calls
MaxStarts == 2        \* startVisualization calls

VARIABLES
    visualizationCallback,  \* this.visualizationCallback
    animationFrameId,       \* this.animationFrameId
    frameRequests,          \* the frame requests still pending
    nFrames,                \* frame requests made so far
    nStarts,                \* startVisualization calls so far
    \* history variables
    clearedCallbacks,       \* callbacks registered when a stopVisualization
                            \* returned
    vizEvent                \* the latest step: the callback it invoked and
                            \* whether that callback called stopVisualization

vizVars == <<visualizationCallback, animationFrameId, frameRequests, nFrames,
             nStarts, clearedCallbacks, vizEvent>>

VizCall(op, invoked, stops) == [op |-> op, invoked |-> invoked, stops |-> stops]

VizInit ==
    /\ visualizationCallback = 0
    /\ animationFrameId = 0
    /\ frameRequests = {}
    /\ nFrames = 0
    /\ nStarts = 0
    /\ clearedCallbacks = {}
    /\ vizEvent = VizCall("none", 0, FALSE)

\* stopVisualization that cancels the frame and keeps the callback
stopVisualization_KeepsCallback(callback, frameId, requests) ==
    [callback |-> callback, frameId |-> 0,
     requests |-> IF frameId # 0 THEN requests \ {frameId} ELSE requests]

\* stopVisualization(): cancel the request held in animationFrameId, if any,
\* and null the callback
stopVisualization(callback, frameId, requests) ==
    [callback |-> 0, frameId |-> 0,
     requests |-> IF frameId # 0 THEN requests \ {frameId} ELSE requests]

\* animateVisualization(): invoke the callback when there is one (stops: it
\* calls stopVisualization), then request the next frame in every case
animateVisualization(callback, frameId, requests, stops) ==
    LET after == IF callback # 0 /\ stops
                 THEN stopVisualization(callback, frameId, requests)
                 ELSE [callback |-> callback, frameId |-> frameId,
                       requests |-> requests]
    IN  [invoked |-> callback,
         callback |-> after.callback,
         frameId |-> nFrames + 1,
         requests |-> after.requests \cup {nFrames + 1}]

\* what the callback invoked by a step leaves registered as clearedCallbacks
ClearedBy(callback, stops) ==
    IF callback # 0 /\ stops THEN clearedCallbacks \cup {callback} ELSE clearedCallbacks

\* startVisualization(callback)
AudioPlayer_startVisualization(stops) ==
    /\ nStarts < MaxStarts
    /\ nFrames < MaxFrames
    /\ LET r == animateVisualization(nStarts + 1, animationFrameId,
                                     frameRequests, stops)
       IN  /\ visualizationCallback' = r.callback
           /\ animationFrameId' = r.frameId
           /\ frameRequests' = r.requests
           /\ vizEvent' = VizCall("startVisualization", r.invoked, stops)
    /\ nStarts' = nStarts + 1
    /\ nFrames' = nFrames + 1
    /\ clearedCallbacks' = ClearedBy(nStarts + 1, stops)

\* the browser runs the frame request f: () => this.animateVisualization()
AnimationFrame(f, stops) ==
    /\ f \in frameRequests
    /\ nFrames < MaxFrames
    /\ LET r == animateVisualization(visualizationCallback, animationFrameId,
                                     frameRequests \ {f}, stops)
       IN  /\ visualizationCallback' = r.callback
           /\ animationFrameId' = r.frameId
           /\ frameRequests' = r.requests
           /\ vizEvent' = VizCall("frame", r.invoked,
                                  stops /\ visualizationCallback # 0)
    /\ nFrames' = nFrames + 1
    /\ clearedCallbacks' = ClearedBy(visualizationCallback, stops)
    /\ UNCHANGED nStarts

\* stopVisualization() called by the application
AudioPlayer_stopVisualization ==
    /\ LET r == stopVisualization(visualizationCallback, animationFrameId,
                                  frameRequests)
       IN  /\ visualizationCallback' = r.callback
           /\ animationFrameId' = r.frameId
           /\ frameRequests' = r.requests
    /\ clearedCallbacks' = ClearedBy(visualizationCallback, TRUE)
    /\ vizEvent' = VizCall("stopVisualization", 0, FALSE)
    /\ UNCHANGED <<nFrames, nStarts>>

VizNext ==
    \/ \E stops \in BOOLEAN : AudioPlayer_startVisualization(stops)
    \/ \E f \in 1..MaxFrames, stops \in BOOLEAN : AnimationFrame(f, stops)
    \/ AudioPlayer_stopVisualization

(***************************************************************************)
(* destroy(), which ends the playback and the visualization, and the       *)
(* operations of the AudioPlayer together.                                 *)
(***************************************************************************)
\* destroy(): stop(), stopVisualization(), then the context is closed and
\* forgotten; the gain node stays set
AudioPlayer_destroy ==
    /\ IF audioContext # "null" /\ gainNode
       THEN BeginFade
       ELSE UNCHANGED <<isStopping, gain, nStops, stopTimeout, timers,
                        resetSince>>
    /\ AudioPlayer_stopVisualization
    /\ audioContext' = "null"
    /\ contextRequest' = "none"
    /\ UNCHANGED <<gainNode, gainValue, currentTime, nextStartTime, scheduledBuffers,
                   lastSegment, nChunks, stoppedSources, teardowns,
                   hardStopMark>>

\* chunks of 50 ms and of 100 ms
ChunkSizes == {9600, 19200}

PlayerNext ==
    \/ /\ \/ AudioPlayer_init
          \/ ClockAdvance(ClockStep)
          \/ \E byteLength \in ChunkSizes :
                 AudioPlayer_processAudioChunk(byteLength)
          \/ AudioPlayer_stop
          \/ \E id \in 1..MaxStops : StopTimeoutFires(id)
          \/ AudioPlayer_hardStop
       /\ UNCHANGED vizVars
    \/ AudioPlayer_destroy

(***************************************************************************)
(* The application glue: PercussionJamApp's connection to the service and  *)
(* the handlers that write on its session.  The session is the object the  *)
(* application gets from the service's client library: a call on it        *)
(* either writes its message and returns a promise, which is resolved or   *)
(* rejected later, or raises.  A session is identified by the number of    *)
(* the handleConnect call that opened it (0 for null), a handler call by   *)
(* its number among the handler calls (0 for the initial configuration).   *)
(* The part of an async handler after an await is an action of its own.    *)
(***************************************************************************)
MaxChanges == 2       \* calls of the handlers that write on the session
MaxSessions == 2      \* calls of handleConnect

VARIABLES
    appSession,       \* this.session: a session, 0 for null
    appIsConnected,   \* this.isConnected
    appIsPlaying,     \* this.isPlaying
    openSessions,     \* the sessions the library has opened and not closed
    sessionWire,      \* what the sessions have written, in order
    connects,         \* the handleConnect calls: where each one is
                      \* ("returned", "connecting", "prompts", "failed",
                      \* "done")
    changes           \* the handler calls: which handler, where it is
                      \* ("returned", "awaiting", "failed", "done"),
                      \* what became of the call it awaits ("none",
                      \* "raised", "pending", "resolved", "rejected") and
                      \* of its call of resetContext ("none", "written",
                      \* "raised")

glueVars == <<appSession, appIsConnected, appIsPlaying, openSessions,
              sessionWire, connects, changes>>

ConfigUpdate(s, k, field) ==
    [session |-> s, kind |-> "musicGenerationConfig", change |-> k,
     field |-> field]
ResetContext(s, k) == [session |-> s, kind |-> "RESET_CONTEXT", change |-> k]
WeightedPrompts(s, k) ==
    [session |-> s, kind |-> "weightedPrompts", change |-> k]
\* session.play(), pause() and stop()
PlaybackControl(s, k, token) == [session |-> s, kind |-> token, change |-> k]

\* the fields of the update setInitialConfig and handleMixerChange send
InitialFields == "bpm,density,brightness"
MixerFields == "muteDrums,muteBass,onlyBassAndDrums"

HandlerCall(field, at, update, reset) ==
    [field |-> field, at |-> at, update |-> update, reset |-> reset]

GlueInit ==
    /\ appSession = 0
    /\ appIsConnected = FALSE
    /\ appIsPlaying = FALSE
    /\ openSessions = {}
    /\ sessionWire = <<>>
    /\ connects = <<>>
    /\ changes = <<>>

\* `if (!this.session || !this.isConnected) return;`
NoSession == appSession = 0 \/ ~appIsConnected

\* handleConnect() up to its first await: return when the key field is
\* empty, else call the library's connect
App_handleConnect(keyGiven) ==
    /\ Len(connects) < MaxSessions
    /\ connects' = Append(connects, [at |-> IF keyGiven THEN "connecting"
                                            ELSE "returned"])
    /\ UNCHANGED <<appSession, appIsConnected, appIsPlaying, openSessions,
                   sessionWire, changes>>
    /\ UNCHANGED playerVars

\* the library's connect resolves with session k: handleConnect assigns
\* this.session, stores the key (stored: setItem does not raise), sets
\* isConnected and runs setInitialConfig up to its first await, the call of
\* session.setWeightedPrompts (accepted: it does not raise); whatever
\* raises is caught at the end of handleConnect
App_connectResolves(k, stored, accepted) ==
    /\ k \in 1..Len(connects)
    /\ connects[k].at = "connecting"
    /\ appSession' = k
    /\ openSessions' = openSessions \cup {k}
    /\ IF ~stored
       THEN /\ connects' = [connects EXCEPT ![k].at = "failed"]
            /\ UNCHANGED <<appIsConnected, sessionWire>>
       ELSE /\ appIsConnected' = TRUE
            /\ IF accepted
               THEN /\ sessionWire' = Append(sessionWire,
                                             WeightedPrompts(k, 0))
                    /\ connects' = [connects EXCEPT ![k].at = "prompts"]
               ELSE /\ connects' = [connects EXCEPT ![k].at = "failed"]
                    /\ UNCHANGED sessionWire
    /\ UNCHANGED <<appIsPlaying, changes>>
    /\ UNCHANGED playerVars

\* the library's connect is rejected: the catch of handleConnect
App_connectRejects(k) ==
    /\ k \in 1..Len(connects)
    /\ connects[k].at = "connecting"
    /\ connects' = [connects EXCEPT ![k].at = "failed"]
    /\ UNCHANGED <<appSession, appIsConnected, appIsPlaying, openSessions,
                   sessionWire, changes>>
    /\ UNCHANGED playerVars

\* setInitialConfig() after its first await (resolved: the promise of
\* setWeightedPrompts was not rejected): this.session is read again and
\* its setMusicGenerationConfig called; nothing follows the await of that
\* call, in setInitialConfig or in handleConnect
App_setInitialConfigResumes(k, resolved, accepted) ==
    /\ k \in 1..Len(connects)
    /\ connects[k].at = "prompts"
    /\ IF resolved /\ appSession # 0 /\ accepted
       THEN /\ sessionWire' = Append(sessionWire,
                                     ConfigUpdate(appSession, 0,
                                                  InitialFields))
            /\ connects' = [connects EXCEPT ![k].at = "done"]
       ELSE /\ connects' = [connects EXCEPT ![k].at = "failed"]
            /\ UNCHANGED sessionWire
    /\ UNCHANGED <<appSession, appIsConnected, appIsPlaying, openSessions,
                   changes>>
    /\ UNCHANGED playerVars

\* handleDisconnect(), the onclose callback of every session: the library
\* closes the session s
App_handleDisconnect(s) ==
    /\ s \in openSessions
    /\ openSessions' = openSessions \ {s}
    /\ appIsConnected' = FALSE
    /\ appIsPlaying' = FALSE
    /\ appSession' = 0
    /\ UNCHANGED <<sessionWire, connects, changes>>
    /\ UNCHANGED playerVars

\* a change handler that calls resetContext before the update
ChangeHandler_ResetFirst(field, accepted) ==
    /\ Len(changes) < MaxChanges
    /\ IF NoSession
       THEN /\ changes' = Append(changes,
                                 HandlerCall(field, "returned", "none", "none"))
            /\ UNCHANGED sessionWire
       ELSE IF accepted
       THEN /\ sessionWire' =
                   sessionWire
                     \o <<ResetContext(appSession, Len(changes) + 1),
                          ConfigUpdate(appSession, Len(changes) + 1, field)>>
            /\ changes' = Append(changes,
                                 HandlerCall(field, "done", "resolved",
                                             "written"))
       ELSE /\ changes' = Append(changes,
                                 HandlerCall(field, "failed", "raised", "none"))
            /\ UNCHANGED sessionWire
    /\ UNCHANGED <<appSession, appIsConnected, appIsPlaying, openSessions,
                   connects>>
    /\ UNCHANGED playerVars

\* the part of applyBpmChange / handleScaleChange up to the await: return
\* when there is no connected session, else call
\* session.setMusicGenerationConfig({musicGenerationConfig: {field: value}}),
\* which writes the update or raises (accepted tells which)
ChangeHandler(field, accepted) ==
    /\ Len(changes) < MaxChanges
    /\ IF NoSession
       THEN /\ changes' = Append(changes,
                                 HandlerCall(field, "returned", "none", "none"))
            /\ UNCHANGED sessionWire
       ELSE IF accepted
       THEN /\ sessionWire' =
                   Append(sessionWire,
                          ConfigUpdate(appSession, Len(changes) + 1, field))
            /\ changes' = Append(changes,
                                 HandlerCall(field, "awaiting", "pending", "none"))
       ELSE /\ changes' = Append(changes,
                                 HandlerCall(field, "failed", "raised", "none"))
            /\ UNCHANGED sessionWire
    /\ UNCHANGED <<appSession, appIsConnected, appIsPlaying, openSessions,
                   connects>>
    /\ UNCHANGED playerVars

App_applyBpmChange(accepted) == ChangeHandler("bpm", accepted)

App_handleScaleChange(accepted) == ChangeHandler("scale", accepted)

\* the continuation of handler call k after its await (resolved: the
\* promise of the update was not rejected): this.session.resetContext() on
\* the session this.session holds now, a TypeError when it is null; the
\* call writes RESET_CONTEXT or raises (accepted tells which); the catch of
\* the handler logs what was raised
ChangeHandlerResumes(k, resolved, accepted) ==
    /\ k \in 1..Len(changes)
    /\ changes[k].field \in {"bpm", "scale"}
    /\ changes[k].at = "awaiting"
    /\ IF ~resolved
       THEN /\ changes' = [changes EXCEPT
                               ![k] = HandlerCall(@.field, "failed",
                                                  "rejected", "none")]
            /\ UNCHANGED sessionWire
       ELSE IF appSession # 0 /\ accepted
       THEN /\ sessionWire' = Append(sessionWire,
                                     ResetContext(appSession, k))
            /\ changes' = [changes EXCEPT
                               ![k] = HandlerCall(@.field, "done",
                                                  "resolved", "written")]
       ELSE /\ changes' = [changes EXCEPT
                               ![k] = HandlerCall(@.field, "failed",
                                                  "resolved", "raised")]
            /\ UNCHANGED sessionWire
    /\ UNCHANGED <<appSession, appIsConnected, appIsPlaying, openSessions,
                   connects>>
    /\ UNCHANGED playerVars

\* a handler that calls one method of the session and has nothing to do
\* after its await: no call when there is no connected session or nothing
\* is given to send, else the call writes message or raises
SessionCall(field, given, accepted, message) ==
    /\ Len(changes) < MaxChanges
    /\ IF ~given \/ NoSession
       THEN /\ changes' = Append(changes,
                                 HandlerCall(field, "returned", "none", "none"))
            /\ UNCHANGED sessionWire
       ELSE IF accepted
       THEN /\ sessionWire' = Append(sessionWire, message)
            /\ changes' = Append(changes,
                                 HandlerCall(field, "done", "pending", "none"))
       ELSE /\ changes' = Append(changes,
                                 HandlerCall(field, "failed", "raised", "none"))
            /\ UNCHANGED sessionWire
    /\ UNCHANGED <<appSession, appIsConnected, appIsPlaying, openSessions,
                   connects>>
    /\ UNCHANGED playerVars

App_handleDensityChange(accepted) ==
    SessionCall("density", TRUE, accepted,
                ConfigUpdate(appSession, Len(changes) + 1, "density"))

App_handleBrightnessChange(accepted) ==
    SessionCall("brightness", TRUE, accepted,
                ConfigUpdate(appSession, Len(changes) + 1, "brightness"))

App_handleMixerChange(accepted) ==
    SessionCall("mixer", TRUE, accepted,
                ConfigUpdate(appSession, Len(changes) + 1, MixerFields))

\* applyCurrentBlend(), which handlePadClick ends with: the prompts of the
\* default preset or of the blend, nothing when blendPresets returns no
\* blend (blended is false)
App_applyCurrentBlend(blended, accepted) ==
    SessionCall("blend", blended, accepted,
                WeightedPrompts(appSession, Len(changes) + 1))

\* clearBlend(): the same call outside any try block
App_clearBlend(accepted) ==
    SessionCall("clear", TRUE, accepted,
                WeightedPrompts(appSession, Len(changes) + 1))

\* handleCustomPrompt(): returns on an empty text as well
App_handleCustomPrompt(textGiven, accepted) ==
    SessionCall("custom", textGiven, accepted,
                WeightedPrompts(appSession, Len(changes) + 1))

\* handlePlay() up to its await of audioPlayer.resume()
App_handlePlay ==
    /\ Len(changes) < MaxChanges
    /\ IF NoSession
       THEN /\ changes' = Append(changes,
                                 HandlerCall("play", "returned", "none", "none"))
            /\ UNCHANGED playerVars
       ELSE /\ changes' = Append(changes,
                                 HandlerCall("play", "awaiting", "pending", "none"))
            /\ AudioPlayer_resume
    /\ UNCHANGED <<appSession, appIsConnected, appIsPlaying, openSessions,
                   sessionWire, connects>>

\* handlePlay() once the context has resumed: this.session.play() on the
\* session this.session holds now, then isPlaying
App_handlePlayResumes(k, accepted) ==
    /\ k \in 1..Len(changes)
    /\ changes[k].field = "play"
    /\ changes[k].at = "awaiting"
    /\ contextRequest # "resume"
    /\ IF appSession # 0 /\ accepted
       THEN /\ sessionWire' = Append(sessionWire,
                                     PlaybackControl(appSession, k, "PLAY"))
            /\ appIsPlaying' = TRUE
            /\ changes' = [changes EXCEPT
                               ![k] = HandlerCall("play", "done",
                                                  "resolved", "none")]
       ELSE /\ changes' = [changes EXCEPT
                               ![k] = HandlerCall("play", "failed",
                                                  "resolved", "none")]
            /\ UNCHANGED <<sessionWire, appIsPlaying>>
    /\ UNCHANGED <<appSession, appIsConnected, openSessions, connects>>
    /\ UNCHANGED playerVars

\* handlePause()
App_handlePause(accepted) ==
    /\ Len(changes) < MaxChanges
    /\ IF NoSession
       THEN /\ changes' = Append(changes,
                                 HandlerCall("pause", "returned", "none", "none"))
            /\ UNCHANGED <<sessionWire, appIsPlaying>>
       ELSE IF accepted
       THEN /\ sessionWire' =
                   Append(sessionWire,
                          PlaybackControl(appSession, Len(changes) + 1,
                                          "PAUSE"))
            /\ appIsPlaying' = FALSE
            /\ changes' = Append(changes,
                                 HandlerCall("pause", "done", "none", "none"))
       ELSE /\ changes' = Append(changes,
                                 HandlerCall("pause", "failed", "raised", "none"))
            /\ UNCHANGED <<sessionWire, appIsPlaying>>
    /\ UNCHANGED <<appSession, appIsConnected, openSessions, connects>>
    /\ UNCHANGED playerVars

\* handleStop(): session.stop(), then the fade-out of the player
App_handleStop(accepted) ==
    /\ Len(changes) < MaxChanges
    /\ IF NoSession
       THEN /\ changes' = Append(changes,
                                 HandlerCall("stop", "returned", "none", "none"))
            /\ UNCHANGED <<sessionWire, appIsPlaying>>
            /\ UNCHANGED playerVars
       ELSE IF accepted
       THEN /\ sessionWire' =
                   Append(sessionWire,
                          PlaybackControl(appSession, Len(changes) + 1,
                                          "STOP"))
            /\ AudioPlayer_stop
            /\ appIsPlaying' = FALSE
            /\ changes' = Append(changes,
                                 HandlerCall("stop", "done", "none", "none"))
       ELSE /\ changes' = Append(changes,
                                 HandlerCall("stop", "failed", "raised", "none"))
            /\ UNCHANGED <<sessionWire, appIsPlaying>>
            /\ UNCHANGED playerVars
    /\ UNCHANGED <<appSession, appIsConnected, openSessions, connects>>

GlueNext ==
    \/ \E keyGiven \in BOOLEAN : App_handleConnect(keyGiven)
    \/ \E k \in 1..MaxSessions, stored, accepted \in BOOLEAN :
           App_connectResolves(k, stored, accepted)
    \/ \E k \in 1..MaxSessions : App_connectRejects(k)
    \/ \E k \in 1..MaxSessions, resolved, accepted \in BOOLEAN :
           App_setInitialConfigResumes(k, resolved, accepted)
    \/ \E s \in 1..MaxSessions : App_handleDisconnect(s)
    \/ \E accepted \in BOOLEAN : App_applyBpmChange(accepted)
    \/ \E accepted \in BOOLEAN : App_handleScaleChange(accepted)
    \/ \E k \in 1..MaxChanges, resolved, accepted \in BOOLEAN :
           ChangeHandlerResumes(k, resolved, accepted)
    \/ \E accepted \in BOOLEAN : App_handleDensityChange(accepted)
    \/ \E accepted \in BOOLEAN : App_handleBrightnessChange(accepted)
    \/ \E accepted \in BOOLEAN : App_handleMixerChange(accepted)
    \/ \E blended, accepted \in BOOLEAN :
           App_applyCurrentBlend(blended, accepted)
    \/ \E accepted \in BOOLEAN : App_clearBlend(accepted)
    \/ \E textGiven, accepted \in BOOLEAN :
           App_handleCustomPrompt(textGiven, accepted)
    \/ App_handlePlay
    \/ \E k \in 1..MaxChanges, accepted \in BOOLEAN :
           App_handlePlayResumes(k, accepted)
    \/ \E accepted \in BOOLEAN : App_handlePause(accepted)
    \/ \E accepted \in BOOLEAN : App_handleStop(accepted)

(***************************************************************************)
(* MidiManager state.  this.mappings is a JavaScript object: its entries   *)
(* are kept in the order their keys were first set, so it is a sequence of *)
(* entries [id, channel, cc] with distinct ids.  The mapping store is the  *)
(* localStorage item: absent, text that does not parse, or the serialised  *)
(* entries of an object.                                                   *)
(***************************************************************************)
VARIABLES
    mappings,         \* this.mappings
    learning,         \* the slider id of this.learning, "none" for null
    storage,          \* the localStorage item under STORAGE_KEY
    midiCallbacks,    \* the callback fields that hold a function
    nStoreFailures,   \* how many calls of localStorage.setItem have raised
    \* history variables
    midiEmitted,      \* callback invocations of the latest step
    midiEvent         \* the operation the latest step performed

midiVars == <<mappings, learning, storage, midiCallbacks, nStoreFailures,
              midiEmitted, midiEvent>>

SliderIds == {"bpm", "density", "brightness"}
MidiChannels == {0, 1}
MidiCCs == {20}
MidiCallbackSlots == {"onParameterChange", "onLearnComplete", "onLearnStart"}

NoItem == [kind |-> "null"]                    \* getItem returns null
CorruptItem == [kind |-> "corrupt"]            \* JSON.parse raises
ObjectItem(entries) == [kind |-> "object", entries |-> entries]

Mapping(id, channel, cc) == [id |-> id, channel |-> channel, cc |-> cc]

MappingEntries ==
    {Mapping(id, ch, cc) : id \in SliderIds, ch \in MidiChannels, cc \in MidiCCs}

\* the objects a store can hold: every key once
StoredObjects ==
    {entries \in UNION {[1..n -> MappingEntries] :
                            n \in 0..Cardinality(SliderIds)} :
        \A i, j \in 1..Len(entries) : i # j => entries[i].id # entries[j].id}

StoredItems == {NoItem, CorruptItem} \cup {ObjectItem(e) : e \in StoredObjects}

\* delete obj[id]
DeleteKey(obj, id) == SelectSeq(obj, LAMBDA e : e.id # id)

\* obj[id] = {channel, cc}: a key already present keeps its place
SetKey(obj, entry) ==
    IF \E i \in 1..Len(obj) : obj[i].id = entry.id
    THEN [i \in 1..Len(obj) |-> IF obj[i].id = entry.id THEN entry ELSE obj[i]]
    ELSE Append(obj, entry)

\* `${mapping.channel}:${mapping.cc}`
PairKey(entry) == <<entry.channel, entry.cc>>

\* the loop of loadMappings over the stored entries, keeping every entry
\* (no entry is deleted for a pair seen before)
RECURSIVE LoadEntries_KeepAll(_, _, _)
LoadEntries_KeepAll(entries, seen, acc) ==
    IF entries = <<>> THEN acc
    ELSE LET e   == Head(entries)
             key == PairKey(e)
         IN  LoadEntries_KeepAll(Tail(entries),
                         [k \in (DOMAIN seen) \cup {key} |->
                              IF k = key THEN e.id ELSE seen[k]],
                         SetKey(acc, e))

\* the loop of loadMappings over the stored entries: seen maps a pair to
\* the id that holds it so far, acc is this.mappings
RECURSIVE LoadEntries(_, _, _)
LoadEntries(entries, seen, acc) ==
    IF entries = <<>> THEN acc
    ELSE LET e   == Head(entries)
             key == PairKey(e)
             cleared == IF key \in DOMAIN seen
                        THEN DeleteKey(acc, seen[key]) ELSE acc
         IN  LoadEntries(Tail(entries),
                         [k \in (DOMAIN seen) \cup {key} |->
                              IF k = key THEN e.id ELSE seen[k]],
                         SetKey(cleared, e))

EmptySeen == [k \in {} |-> "none"]

\* loadMappings(): the mappings it leaves, given the ones it finds
loadMappings(item, current) ==
    CASE item.kind = "null" -> current
      [] item.kind = "corrupt" -> <<>>
      [] OTHER -> LoadEntries(item.entries, EmptySeen, <<>>)

\* saveMappings(): the item stored; setItem may raise (the store is full or
\* disabled), which is caught and logged and leaves the item as it was
saveMappings(obj, item, writable) ==
    IF writable THEN ObjectItem(obj) ELSE item

\* how many writes of the mapping store raise in one run
MaxStoreFailures == 1

\* the call of saveMappings() that ends a mutating operation
SaveMappings(writable) ==
    /\ writable \/ nStoreFailures < MaxStoreFailures
    /\ storage' = saveMappings(mappings', storage, writable)
    /\ nStoreFailures' = IF writable THEN nStoreFailures
                         ELSE nStoreFailures + 1

\* what the latest step did to the store
Saved(writable) == IF writable THEN "stored" ELSE "failed"

MidiCall(slot, args) == [cb |-> slot, args |-> args]

MidiNotify(slot, args) ==
    IF slot \in midiCallbacks THEN <<MidiCall(slot, args)>> ELSE <<>>

\* a manager just constructed over a store holding item
MidiConstructed(item) ==
    /\ storage = item
    /\ mappings = loadMappings(item, <<>>)
    /\ learning = "none"
    /\ midiCallbacks = {}
    /\ nStoreFailures = 0
    /\ midiEmitted = <<>>
    /\ midiEvent = [op |-> "constructor", item |-> item]

MidiInit == \E item \in StoredItems : MidiConstructed(item)

(***************************************************************************)
(* MidiManager operations.  writable tells whether localStorage.setItem    *)
(* succeeds in the call.                                                   *)
(***************************************************************************)
\* the page is loaded again: constructor(), with its loadMappings()
MidiManager_constructor ==
    /\ mappings' = loadMappings(storage, <<>>)
    /\ learning' = "none"
    /\ midiCallbacks' = {}
    /\ midiEmitted' = <<>>
    /\ midiEvent' = [op |-> "constructor", item |-> storage]
    /\ UNCHANGED <<storage, nStoreFailures>>

\* the application sets one of the callback fields
MidiManager_setCallback(slot) ==
    /\ slot \notin midiCallbacks
    /\ midiCallbacks' = midiCallbacks \cup {slot}
    /\ midiEmitted' = <<>>
    /\ midiEvent' = [op |-> "setCallback", slot |-> slot]
    /\ UNCHANGED <<mappings, learning, storage, nStoreFailures>>

\* loadMappings() called on the manager as it is
MidiManager_loadMappings ==
    /\ mappings' = loadMappings(storage, mappings)
    /\ midiEmitted' = <<>>
    /\ midiEvent' = [op |-> "loadMappings", item |-> storage]
    /\ UNCHANGED <<learning, storage, midiCallbacks, nStoreFailures>>

\* the entries of obj that hold the pair, in the order of Object.entries
Holding(obj, channel, cc) ==
    SelectSeq(obj, LAMBDA e : e.cc = cc /\ e.channel = channel)

\* the ids that hold the pair
HolderIds(obj, channel, cc) ==
    {Holding(obj, channel, cc)[i].id : i \in 1..Len(Holding(obj, channel, cc))}

\* the mappings assignMapping leaves without the removal loop
Assigned_NoRemoval(obj, sliderId, channel, cc) ==
    SetKey(obj, Mapping(sliderId, channel, cc))

\* the mappings assignMapping leaves: every other id holding the pair is
\* deleted, then the id is set
Assigned(obj, sliderId, channel, cc) ==
    SetKey(SelectSeq(obj, LAMBDA e : ~(e.cc = cc /\ e.channel = channel
                                       /\ e.id # sliderId)),
           Mapping(sliderId, channel, cc))

\* what assignMapping(sliderId, channel, cc) changes
AssignMappingEffect(sliderId, channel, cc, writable) ==
    /\ mappings' = Assigned(mappings, sliderId, channel, cc)
    /\ learning' = "none"
    /\ SaveMappings(writable)
    /\ midiEmitted' = MidiNotify("onLearnComplete", <<sliderId, cc, channel>>)
    /\ UNCHANGED midiCallbacks

MidiManager_assignMapping(sliderId, channel, cc, writable) ==
    /\ AssignMappingEffect(sliderId, channel, cc, writable)
    /\ midiEvent' = [op |-> "assignMapping", id |-> sliderId,
                     channel |-> channel, cc |-> cc,
                     held |-> HolderIds(mappings, channel, cc),
                     saved |-> Saved(writable)]

\* clearMapping that deletes the id and does not call saveMappings
MidiManager_clearMapping_NoSave(sliderId, writable) ==
    /\ mappings' = DeleteKey(mappings, sliderId)
    /\ midiEmitted' = <<>>
    /\ midiEvent' = [op |-> "clearMapping", id |-> sliderId,
                     saved |-> "stored"]
    /\ UNCHANGED <<learning, storage, midiCallbacks, nStoreFailures>>

\* clearMapping(sliderId)
MidiManager_clearMapping(sliderId, writable) ==
    /\ mappings' = DeleteKey(mappings, sliderId)
    /\ SaveMappings(writable)
    /\ midiEmitted' = <<>>
    /\ midiEvent' = [op |-> "clearMapping", id |-> sliderId,
                     saved |-> Saved(writable)]
    /\ UNCHANGED <<learning, midiCallbacks>>

MidiManager_clearAllMappings(writable) ==
    /\ mappings' = <<>>
    /\ SaveMappings(writable)
    /\ midiEmitted' = <<>>
    /\ midiEvent' = [op |-> "clearAllMappings", saved |-> Saved(writable)]
    /\ UNCHANGED <<learning, midiCallbacks>>

MidiManager_startLearn(sliderId) ==
    /\ learning' = sliderId
    /\ midiEmitted' = MidiNotify("onLearnStart", <<sliderId>>)
    /\ midiEvent' = [op |-> "startLearn", id |-> sliderId]
    /\ UNCHANGED <<mappings, storage, midiCallbacks, nStoreFailures>>

MidiManager_cancelLearn ==
    /\ learning' = "none"
    /\ midiEmitted' = <<>>
    /\ midiEvent' = [op |-> "cancelLearn"]
    /\ UNCHANGED <<mappings, storage, midiCallbacks, nStoreFailures>>

\* status & 0xf0 and status & 0x0f of a status byte
MessageType(status) == (status \div 16) * 16
ChannelOf(status) == status % 16

\* handleMessage without the `return` after assignMapping: the captured
\* message goes on to the lookup and is delivered to the parameter it has
\* just been assigned to
MidiManager_handleMessage_FallsThrough(status, data1, data2, writable) ==
    /\ midiEvent' = [op |-> "handleMessage", status |-> status,
                     data1 |-> data1, data2 |-> data2,
                     learning |-> learning,
                     held |-> HolderIds(mappings, ChannelOf(status), data1),
                     saved |-> IF MessageType(status) = 176
                                  /\ learning # "none"
                               THEN Saved(writable) ELSE "none"]
    /\ IF MessageType(status) # 176
       THEN /\ midiEmitted' = <<>>
            /\ UNCHANGED <<mappings, learning, storage, midiCallbacks,
                           nStoreFailures>>
       ELSE IF learning # "none"
       THEN /\ mappings' = Assigned(mappings, learning, ChannelOf(status),
                                    data1)
            /\ learning' = "none"
            /\ SaveMappings(writable)
            /\ midiEmitted' =
                   MidiNotify("onLearnComplete",
                              <<learning, data1, ChannelOf(status)>>)
                   \o MidiNotify("onParameterChange", <<learning, data2>>)
            /\ UNCHANGED midiCallbacks
       ELSE /\ midiEmitted' =
                   (IF Holding(mappings, ChannelOf(status), data1) = <<>>
                    THEN <<>>
                    ELSE MidiNotify("onParameterChange",
                             <<Head(Holding(mappings, ChannelOf(status),
                                            data1)).id,
                               data2>>))
            /\ UNCHANGED <<mappings, learning, storage, midiCallbacks,
                           nStoreFailures>>

\* handleMessage(event) with event.data = [status, data1, data2]
MidiManager_handleMessage(status, data1, data2, writable) ==
    /\ midiEvent' = [op |-> "handleMessage", status |-> status,
                     data1 |-> data1, data2 |-> data2,
                     learning |-> learning,
                     held |-> HolderIds(mappings, ChannelOf(status), data1),
                     saved |-> IF MessageType(status) = 176
                                  /\ learning # "none"
                               THEN Saved(writable) ELSE "none"]
    /\ IF MessageType(status) # 176
       THEN /\ midiEmitted' = <<>>
            /\ UNCHANGED <<mappings, learning, storage, midiCallbacks,
                           nStoreFailures>>
       ELSE IF learning # "none"
       THEN AssignMappingEffect(learning, ChannelOf(status), data1, writable)
       ELSE /\ midiEmitted' =
                   (IF Holding(mappings, ChannelOf(status), data1) = <<>>
                    THEN <<>>
                    ELSE MidiNotify("onParameterChange",
                             <<Head(Holding(mappings, ChannelOf(status),
                                            data1)).id,
                               data2>>))
            /\ UNCHANGED <<mappings, learning, storage, midiCallbacks,
                           nStoreFailures>>

StatusBytes == {176, 177, 144}
DataValues == {0, 127}

\* the outcomes of localStorage.setItem: the store accepts the write, or the
\* call raises
StoreOutcomes == {TRUE, FALSE}

MidiNext ==
    \/ MidiManager_constructor
    \/ \E slot \in MidiCallbackSlots : MidiManager_setCallback(slot)
    \/ MidiManager_loadMappings
    \/ \E id \in SliderIds, ch \in MidiChannels, cc \in MidiCCs,
          writable \in StoreOutcomes :
           MidiManager_assignMapping(id, ch, cc, writable)
    \/ \E id \in SliderIds, writable \in StoreOutcomes :
           MidiManager_clearMapping(id, writable)
    \/ \E writable \in StoreOutcomes : MidiManager_clearAllMappings(writable)
    \/ \E id \in SliderIds : MidiManager_startLearn(id)
    \/ MidiManager_cancelLearn
    \/ \E status \in StatusBytes, cc \in MidiCCs, value \in DataValues,
          writable \in StoreOutcomes :
           MidiManager_handleMessage(status, cc, value, writable)

(***************************************************************************)
(* Initial state and specifications.  Each specification runs one          *)
(* component, or one part of it, and leaves the rest of the state alone.   *)
(***************************************************************************)
vars == <<clientVars, playerVars, midiVars, vizVars, glueVars>>

\* the application just loaded, over an empty mapping store
Init ==
    /\ ClientConstructed("key")
    /\ PlayerInit /\ VizInit /\ GlueInit /\ MidiConstructed(NoItem)

\* the same with a client constructed with any key
ClientStart ==
    ClientInit /\ PlayerInit /\ VizInit /\ GlueInit /\ MidiConstructed(NoItem)

\* the manager on its own, constructed over any mapping store
MidiStart ==
    /\ ClientConstructed("key")
    /\ PlayerInit /\ VizInit /\ GlueInit /\ MidiInit

SpecMidi == MidiStart /\ [][MidiNext /\ UNCHANGED <<clientVars, playerVars, vizVars, glueVars>>]_vars

SpecPlayer == Init /\ [][PlayerNext /\ UNCHANGED <<clientVars, midiVars, glueVars>>]_vars

(***************************************************************************)
(* The handshake and queueing protocol on its own: transport control       *)
(* calls, the handshake messages and the transport's life cycle.           *)
(***************************************************************************)
ProtocolPayloads == {
    Text([setupComplete |-> SetupAck]),
    Text([serverContent |-> [generationState |-> "PLAYING"]]),
    Garbage
}

ProtocolNext ==
    \/ LyriaClient_connect
    \/ LyriaClient_play
    \/ LyriaClient_pause
    \/ LyriaClient_stop
    \/ LyriaClient_resetContext
    \/ LyriaClient_disconnect
    \/ \E t \in Transports : ws_onopen(t)
    \/ \E t \in Transports, data \in ProtocolPayloads :
           ws_onmessage_string(t, data)
    \/ \E t \in Transports, data \in ProtocolPayloads :
           ws_onmessage_blob(t, data)
    \/ ws_onmessage_resume
    \/ \E t \in Transports : ws_onerror(t)
    \/ \E t \in Transports : ws_onclose(t)

SpecProtocol == ClientStart /\ [][ProtocolNext /\ UNCHANGED <<lastEvent, playerVars, midiVars, vizVars, glueVars>>]_vars

(***************************************************************************)
(* The inbound dispatch on its own: every payload, every callback slot;    *)
(* the specification observes which payload the latest step handled.       *)
(***************************************************************************)
Handled(data) == [type |-> "message", data |-> data]

DispatchNext ==
    \/ (\E event \in CallbackSlots \ {"close"} : LyriaClient_on(event))
          /\ lastEvent' = NoEvent
    \/ nConnects = 0 /\ LyriaClient_connect /\ lastEvent' = NoEvent
    \/ nSent = 0 /\ LyriaClient_play /\ lastEvent' = NoEvent
    \/ (\E t \in Transports : ws_onopen(t)) /\ lastEvent' = NoEvent
    \/ \E t \in Transports, data \in InboundPayloads :
           ws_onmessage_string(t, data) /\ lastEvent' = Handled(data)
    \/ (\E t \in Transports, data \in InboundPayloads :
           ws_onmessage_blob(t, data)) /\ lastEvent' = NoEvent
    \/ ws_onmessage_resume /\ lastEvent' = Handled(Head(pendingBlobs))

SpecDispatch == ClientStart /\ [][DispatchNext /\ UNCHANGED <<playerVars, midiVars, vizVars, glueVars>>]_vars

(***************************************************************************)
(* The parameter and prompt updates on their own.                          *)
(***************************************************************************)
ConfigNext ==
    \/ LyriaClient_connect
    \/ \E t \in Transports : ws_onopen(t)
    \/ \E t \in Transports :
           ws_onmessage_string(t, Text([setupComplete |-> SetupAck]))
    \/ \E prompts \in PromptInputs : LyriaClient_setWeightedPrompts(prompts)
    \/ \E config \in ConfigInputs : LyriaClient_setMusicGenerationConfig(config)

SpecConfig == ClientStart /\ [][ConfigNext /\ UNCHANGED <<lastEvent, playerVars, midiVars, vizVars, glueVars>>]_vars

(***************************************************************************)
(* Properties.                                                             *)
(***************************************************************************)
CallerMessage(e) == e.tag > 0

\* C1: caller messages submitted before the handshake completed appear on
\* the wire in the order they were submitted, whether each was submitted
\* before or after the transport opened.
C1_PreReadyOrder ==
    \A t \in Transports :
        \A i, j \in 1..Len(wire[t]) :
            (i < j /\ CallerMessage(wire[t][i]) /\ CallerMessage(wire[t][j])
                   /\ wire[t][i].pre /\ wire[t][j].pre)
            => wire[t][i].tag < wire[t][j].tag

\* C2: send() writes to the transport only once the handshake is complete:
\* apart from the setup message, whatever a step appends to a wire is
\* appended while isSetupComplete holds.
C2_NoContentBeforeAck ==
    [][\A t \in Transports :
          \A i \in (Len(wire[t]) + 1)..Len(wire'[t]) :
              CallerMessage(wire'[t][i]) => isSetupComplete']_vars

\* the outbound messages of the session, written or still queued
RECURSIVE Written(_)
Written(t) == IF t = 0 THEN <<>> ELSE Written(t - 1) \o wire[t]

Outbound == messageQueue \o Written(MaxConnects)

IsConfigMessage(e) == Has(e.msg, "musicGenerationConfig")

\* C3: every outbound musicGenerationConfig message carries the complete
\* retained config: the latest one holds every field, with the value the
\* retained config has for it (as sent: clamped and rounded).
C3_CompleteConfig ==
    \A i \in 1..Len(Outbound) :
        (IsConfigMessage(Outbound[i])
         /\ \A j \in 1..Len(Outbound) :
                IsConfigMessage(Outbound[j]) => Outbound[j].tag <= Outbound[i].tag)
        => \A f \in CopiedFields :
               /\ Has(Outbound[i].msg.musicGenerationConfig, f)
               /\ Outbound[i].msg.musicGenerationConfig[f]
                      = ConfigObj(currentConfig)[f]

\* C4: a segment scheduled by a call that found no stall, with no stop(),
\* hardStop() or teardown since the segment before it, starts exactly where
\* that segment ends.
C4_Contiguous ==
    (lastSegment # NoSegment /\ lastSegment.prevEnd # NoTime
                             /\ ~lastSegment.stalled)
    => lastSegment.start = lastSegment.prevEnd

C4_Witness ==
    /\ nChunks >= 2
    /\ Before(Zero, lastSegment.prevEnd)
    /\ ~lastSegment.stalled
    /\ Before(Zero, lastSegment.now)
    /\ lastSegment.start = lastSegment.prevEnd

\* C5: a segment scheduled by a call that found a stall (the clock ahead of
\* nextStartTime) starts at least the lead-in after the clock read by the
\* call, in the arithmetic of the code and counted in frames, and strictly
\* after it.
C5_LeadInAfterStall ==
    lastSegment.stalled
    => /\ ~Before(lastSegment.start, Plus(lastSegment.now, LeadIn))
       /\ lastSegment.start.frame >= lastSegment.now.frame + LeadIn.frame
       /\ Before(lastSegment.now, lastSegment.start)

C5_Witness ==
    /\ lastSegment.stalled
    /\ Before(Zero, lastSegment.now)
    /\ teardowns # {}
    /\ lastSegment.start = Plus(lastSegment.now, LeadIn)

\* the teardown of the latest stop() has not run yet
FadePending == stopTimeout # 0 /\ stopTimeout \in timers

\* C6: from a stop() until the teardown of that stop() has run, no chunk is
\* scheduled.
C6_NoSchedulingDuringFade ==
    [][FadePending => nChunks' = nChunks]_vars

\* C7: an earlier teardown is cancelled by a later stop(): the only teardown
\* that ever runs is the one of the latest stop().
C7_OnlyLatestTeardownRuns ==
    [][\A id \in teardowns' \ teardowns : id = stopTimeout]_vars

\* C8: after hardStop(), no teardown of a stop() that was called before it
\* runs.
C8_NoTeardownAfterHardStop ==
    [][\A id \in teardowns' \ teardowns : id > hardStopMark]_vars

\* the invocations of one callback slot made by the latest step
Calls(slot) == SelectSeq(emitted, LAMBDA c : c.cb = slot)

\* the chunks of a message that carry data
DataChunks(message) ==
    SelectSeq(AudioChunksOf(message),
              LAMBDA chunk : Has(chunk, "data") /\ chunk.data # <<>>)

\* every chunk's data is base64
Decodable(message) ==
    \A i \in 1..Len(DataChunks(message)) :
        ~atobThrows(DataChunks(message)[i].data)

StateName(token) ==
    CASE token = "PLAYING" -> "playing"
      [] token = "PAUSED" -> "paused"
      [] token = "STOPPED" -> "stopped"
      [] OTHER -> "none"

HandledMessage == lastEvent.type = "message" /\ lastEvent.data.parses

\* C9: a message with n data-bearing chunks and generationState PLAYING
\* (the chunks' data decodable, both callbacks registered) yields n
\* audio-chunk callbacks, in chunk order with the decoded bytes, followed by
\* exactly one state-change callback, with 'playing'.
C9_AudioThenState ==
    (/\ HandledMessage
     /\ GenerationStateOf(lastEvent.data.value) = "PLAYING"
     /\ DataChunks(lastEvent.data.value) # <<>>
     /\ Decodable(lastEvent.data.value)
     /\ {"audioChunk", "stateChange"} \subseteq callbacks)
    => LET chunks == DataChunks(lastEvent.data.value)
           audio  == Calls("audioChunk")
       IN  /\ Len(audio) = Len(chunks)
           /\ \A i \in 1..Len(audio) :
                  /\ emitted[i].cb = "audioChunk"
                  /\ audio[i].arg = base64ToArrayBuffer(chunks[i].data)
           /\ Calls("stateChange") = <<Invocation("stateChange", "playing")>>
           /\ emitted[Len(audio) + 1].cb = "stateChange"
           /\ isPlaying

\* C10: every part present in a message is handled, whatever other parts
\* are present: the setup acknowledgement completes the handshake, every
\* data-bearing chunk is delivered, a generation state is notified, a
\* filtered prompt and an error are each reported.
C10_IndependentParts ==
    (HandledMessage /\ Decodable(lastEvent.data.value))
    => LET message == lastEvent.data.value
           token   == GenerationStateOf(message)
       IN  /\ IsSetupComplete(message) => isSetupComplete
           /\ "audioChunk" \in callbacks
              => Len(Calls("audioChunk")) = Len(DataChunks(message))
           /\ ("stateChange" \in callbacks /\ StateName(token) # "none")
              => \E i \in 1..Len(Calls("stateChange")) :
                     Calls("stateChange")[i].arg = StateName(token)
           /\ "error" \in callbacks
              => Len(Calls("error"))
                     = (IF IsFiltered(message) THEN 1 ELSE 0)
                       + (IF IsError(message) THEN 1 ELSE 0)

(***************************************************************************)
(* The connection handshake on its own: connect() and disconnect(), one    *)
(* caller operation that may be queued, and the events of every transport. *)
(* The specification observes on which transports a setup acknowledgement  *)
(* has been received so far, and which transport's error or close event    *)
(* the latest step handled (0 when it handled none).                       *)
(***************************************************************************)
HandshakePayloads == {
    Text([setupComplete |-> SetupAck]),
    Text([serverContent |-> [generationState |-> "PLAYING"]])
}

Acked(e) == IF Has(e, "acked") THEN e.acked ELSE {}
Failed(e) == IF Has(e, "failed") THEN e.failed ELSE 0

Observed(acked, failed) ==
    [type |-> "handshake", acked |-> acked, failed |-> failed]

\* the transports acknowledged once payload data has arrived on transport t
AckedWith(t, data) ==
    IF data.parses /\ IsSetupComplete(data.value)
    THEN Acked(lastEvent) \cup {t} ELSE Acked(lastEvent)

HandshakeNext ==
    \/ LyriaClient_connect /\ lastEvent' = Observed(Acked(lastEvent), 0)
    \/ LyriaClient_disconnect /\ lastEvent' = Observed(Acked(lastEvent), 0)
    \/ LyriaClient_play /\ lastEvent' = Observed(Acked(lastEvent), 0)
    \/ (\E t \in Transports : ws_onopen(t))
          /\ lastEvent' = Observed(Acked(lastEvent), 0)
    \/ \E t \in Transports, data \in HandshakePayloads :
           /\ ws_onmessage_string(t, data)
           /\ lastEvent' = Observed(AckedWith(t, data), 0)
    \/ \E t \in Transports, data \in HandshakePayloads :
           /\ ws_onmessage_blob(t, data)
           /\ lastEvent' = Observed(AckedWith(t, data), 0)
    \/ ws_onmessage_resume /\ lastEvent' = Observed(Acked(lastEvent), 0)
    \/ \E t \in Transports :
           ws_onerror(t) /\ lastEvent' = Observed(Acked(lastEvent), t)
    \/ \E t \in Transports :
           ws_onclose(t) /\ lastEvent' = Observed(Acked(lastEvent), t)

SpecHandshake == ClientStart /\ [][HandshakeNext /\ UNCHANGED <<playerVars, midiVars, vizVars, glueVars>>]_vars

\* C11: the promise of the k-th connect() becomes resolved only in a step
\* taken once a setup acknowledgement has been received on the transport
\* that call opened; it is rejected by the error or close event of that
\* transport when no acknowledgement has been received on it; once settled
\* it never changes.
C11_ConnectPromise ==
    [][\A k \in Transports :
          /\ (promise[k] # "resolved" /\ promise'[k] = "resolved")
             => k \in Acked(lastEvent')
          /\ (promise[k] = "pending" /\ k \notin Acked(lastEvent)
                                     /\ Failed(lastEvent') = k)
             => promise'[k] = "rejected"
          /\ promise[k] \in {"resolved", "rejected"}
             => promise'[k] = promise[k]]_vars

\* a malformed payload: text that does not parse, or a message with a
\* chunk whose data is not base64
Malformed(data) == ~data.parses \/ ~Decodable(data.value)

\* C12: the handling of a malformed payload is contained: the step that
\* handles it leaves the session flags, the outbound queue and everything
\* else the dispatch of a later message depends on (transports, wire,
\* promise, callbacks) as they were, so a later message is dispatched as if
\* the malformed one had not arrived.
C12_MalformedSkipped ==
    [][(lastEvent'.type = "message" /\ Malformed(lastEvent'.data))
       => UNCHANGED <<isConnected, isSetupComplete, isPlaying, messageQueue,
                      ws, readyState, wire, connectResolve, connectReject,
                      promise, callbacks, hung>>]_vars

(***************************************************************************)
(* The arrival of inbound messages on one transport.  The specification    *)
(* numbers the message events in arrival order and observes the arrival    *)
(* numbers of the Blob payloads still being read and of the payloads       *)
(* handed to handleMessage so far, in the order they were handed over.     *)
(***************************************************************************)
MaxArrivals == 3      \* message events of the transport

Arrived(e) == IF Has(e, "arrived") THEN e.arrived ELSE 0
Reading(e) == IF Has(e, "reading") THEN e.reading ELSE <<>>
HandledOrder(e) == IF Has(e, "handled") THEN e.handled ELSE <<>>

Arrival(arrived, reading, handled) ==
    [type |-> "arrival", arrived |-> arrived, reading |-> reading,
     handled |-> handled]

ArrivalNext ==
    \/ /\ nConnects = 0 /\ LyriaClient_connect
       /\ lastEvent' = Arrival(0, <<>>, <<>>)
    \/ /\ \E event \in {"stateChange", "audioChunk"} : LyriaClient_on(event)
       /\ lastEvent' = Arrival(Arrived(lastEvent), Reading(lastEvent),
                               HandledOrder(lastEvent))
    \/ /\ \E t \in Transports : ws_onopen(t)
       /\ lastEvent' = Arrival(Arrived(lastEvent), Reading(lastEvent),
                               HandledOrder(lastEvent))
    \/ /\ Arrived(lastEvent) < MaxArrivals
       /\ \E t \in Transports, data \in ProtocolPayloads :
              ws_onmessage_string(t, data)
       /\ lastEvent' = Arrival(Arrived(lastEvent) + 1, Reading(lastEvent),
                               Append(HandledOrder(lastEvent),
                                      Arrived(lastEvent) + 1))
    \/ /\ Arrived(lastEvent) < MaxArrivals
       /\ \E t \in Transports, data \in ProtocolPayloads :
              ws_onmessage_blob(t, data)
       /\ lastEvent' = Arrival(Arrived(lastEvent) + 1,
                               Append(Reading(lastEvent),
                                      Arrived(lastEvent) + 1),
                               HandledOrder(lastEvent))
    \/ /\ ws_onmessage_resume
       /\ lastEvent' = Arrival(Arrived(lastEvent), Tail(Reading(lastEvent)),
                               Append(HandledOrder(lastEvent),
                                      Head(Reading(lastEvent))))

SpecArrival == ClientStart /\ [][ArrivalNext /\ UNCHANGED <<playerVars, midiVars, vizVars, glueVars>>]_vars

\* C13: the messages of a transport are handed to handleMessage in arrival
\* order, whether each arrived as a string or as a Blob: of two payloads
\* handled, the one handled first arrived first.
C13_ArrivalOrder ==
    \A i, j \in 1..Len(HandledOrder(lastEvent)) :
        i < j => HandledOrder(lastEvent)[i] < HandledOrder(lastEvent)[j]

(***************************************************************************)
(* The transport controls and the playback state.  The specification       *)
(* observes what the latest step was: a control call with its token, a     *)
(* message handled, the close event or disconnect().                       *)
(***************************************************************************)
ControlPayloads == {
    Text([setupComplete |-> SetupAck]),
    Text([serverContent |-> [generationState |-> "PLAYING"]]),
    Text([serverContent |-> [generationState |-> "PAUSED"]]),
    Text([serverContent |-> [audioChunks |-> <<GoodChunk>>]]),
    Garbage
}

\* what the control call about to run returns: the result of its send
SendResult(token) ==
    send(readyState, wire, messageQueue,
         Envelope([playbackControl |-> token], nSent + 1, ~isSetupComplete))

Control(token) ==
    [type |-> "control", token |-> token,
     returned |-> SendResult(token).returned,
     raised |-> SendResult(token).raised]

ControlNext ==
    \/ LyriaClient_on("stateChange") /\ lastEvent' = NoEvent
    \/ nConnects = 0 /\ LyriaClient_connect /\ lastEvent' = NoEvent
    \/ LyriaClient_play /\ lastEvent' = Control("PLAY")
    \/ LyriaClient_pause /\ lastEvent' = Control("PAUSE")
    \/ LyriaClient_stop /\ lastEvent' = Control("STOP")
    \/ LyriaClient_resetContext /\ lastEvent' = Control("RESET_CONTEXT")
    \/ LyriaClient_disconnect /\ lastEvent' = [type |-> "disconnect"]
    \/ (\E t \in Transports : ws_onopen(t)) /\ lastEvent' = NoEvent
    \/ \E t \in Transports, data \in ControlPayloads :
           ws_onmessage_string(t, data) /\ lastEvent' = Handled(data)
    \/ (\E t \in Transports : ws_onerror(t)) /\ lastEvent' = NoEvent
    \/ (\E t \in Transports : ws_onclose(t)) /\ lastEvent' = [type |-> "close"]

SpecControl == ClientStart /\ [][ControlNext /\ UNCHANGED <<playerVars, midiVars, vizVars, glueVars>>]_vars

\* the step put exactly one message, the control token, on the wire of the
\* current transport or at the end of the queue
Queued(token) ==
    /\ Len(messageQueue') = Len(messageQueue) + 1
    /\ SubSeq(messageQueue', 1, Len(messageQueue)) = messageQueue
    /\ messageQueue'[Len(messageQueue')].msg = [playbackControl |-> token]
    /\ wire' = wire

Sent(token) ==
    /\ messageQueue' = messageQueue
    /\ ws # 0
    /\ Len(wire'[ws]) = Len(wire[ws]) + 1
    /\ wire'[ws][Len(wire'[ws])].msg = [playbackControl |-> token]
    /\ \A t \in Transports :
           SubSeq(wire'[t], 1, Len(wire[t])) = wire[t]
           /\ (t # ws => wire'[t] = wire[t])

SentOrQueued(token) == Queued(token) \/ Sent(token)

\* C14: play(), pause(), stop() and resetContext() send or enqueue their
\* token and nothing else: the session flags stay as they are and no
\* state-change callback is made; isPlaying changes only in a step that
\* handles a message carrying a generation state, the close event of a
\* transport, or disconnect().
C14_PlaybackStateFromProtocol ==
    [][/\ lastEvent'.type = "control"
          => /\ UNCHANGED <<isPlaying, isConnected, isSetupComplete>>
             /\ \A i \in 1..Len(emitted') : emitted'[i].cb # "stateChange"
             /\ SentOrQueued(lastEvent'.token)
       /\ isPlaying' # isPlaying
          => \/ /\ lastEvent'.type = "message"
                /\ lastEvent'.data.parses
                /\ GenerationStateOf(lastEvent'.data.value) # "none"
             \/ lastEvent'.type \in {"close", "disconnect"}]_vars

\* play() has just been written to an acknowledged transport of a session
\* that is not playing, with the state-change callback registered, and the
\* session is still not playing
C14_Witness ==
    /\ lastEvent.type = "control" /\ lastEvent.token = "PLAY"
    /\ isSetupComplete /\ isConnected /\ ~isPlaying
    /\ "stateChange" \in callbacks
    /\ ws # 0 /\ wire[ws] # <<>>
    /\ wire[ws][Len(wire[ws])].msg = [playbackControl |-> "PLAY"]
    /\ emitted = <<>>

(***************************************************************************)
(* The scheduling of chunks against the audio clock on its own, with no    *)
(* stop.                                                                   *)
(***************************************************************************)
\* the clock is read every 50 ms or every 100 ms
ClockSteps == {LeadIn.frame, ClockStep}

ScheduleNext ==
    \/ AudioPlayer_init
    \/ AudioPlayer_resume
    \/ AudioPlayer_pause
    \/ ContextRequestCompletes
    \/ \E frames \in ClockSteps : ClockAdvance(frames)
    \/ \E byteLength \in ChunkSizes : AudioPlayer_processAudioChunk(byteLength)

SpecSchedule ==
    Init /\ [][ScheduleNext /\ UNCHANGED <<clientVars, midiVars, vizVars, glueVars>>]_vars

\* the segments tracked when cleanupBuffers runs in a step that schedules a
\* chunk: the ones tracked before, then the new one
TrackedAtCleanup ==
    Append(scheduledBuffers,
           [source |-> nChunks + 1, endTime |-> nextStartTime'])

IsTracked(buffers, item) == \E i \in 1..Len(buffers) : buffers[i] = item

\* C15: cleanupBuffers(now), as run at the end of every scheduling, keeps
\* every tracked segment whose end is ahead of now, removes every tracked
\* segment whose end now has passed, adds nothing and keeps the survivors in
\* their order.
C15_CleanupBuffers ==
    [][nChunks' = nChunks + 1
       => LET tracked == TrackedAtCleanup
              now     == Seconds(currentTime)
              kept    == scheduledBuffers'
          IN  /\ \A i \in 1..Len(tracked) :
                     /\ Before(now, tracked[i].endTime)
                        => IsTracked(kept, tracked[i])
                     /\ Before(tracked[i].endTime, now)
                        => ~IsTracked(kept, tracked[i])
              /\ \A j \in 1..Len(kept) : IsTracked(tracked, kept[j])
              /\ \A j1, j2 \in 1..Len(kept) :
                     j1 < j2
                     => \E i1, i2 \in 1..Len(tracked) :
                            /\ i1 < i2
                            /\ tracked[i1] = kept[j1]
                            /\ tracked[i2] = kept[j2]]_vars

\* three segments were scheduled with no stop in between; the clock had
\* passed the end of the first when the third was scheduled: the first is
\* gone, the second and the third are tracked in that order
C15_Witness ==
    /\ nChunks = 3
    /\ stoppedSources = {}
    /\ ~resetSince
    /\ Before(Zero, lastSegment.now)
    /\ Len(scheduledBuffers) = 2
    /\ scheduledBuffers[1].source = 2
    /\ scheduledBuffers[2].source = 3
    /\ Before(lastSegment.now, scheduledBuffers[2].endTime)

\* the latest step loaded the mappings from a stored object
LoadedObject ==
    /\ midiEvent.op \in {"constructor", "loadMappings"}
    /\ midiEvent.item.kind = "object"

HasEntry(obj, entry) == \E k \in 1..Len(obj) : obj[k] = entry
HasId(obj, id) == \E k \in 1..Len(obj) : obj[k].id = id

\* C16: after loadMappings has read a stored object, an id whose (channel,
\* cc) pair is also assigned to an id stored after it is not in the
\* mappings; every other stored id is, with its pair unchanged; nothing
\* else is.
C16_LoadKeepsLastStored ==
    LoadedObject
    => LET stored == midiEvent.item.entries
       IN  /\ \A i \in 1..Len(stored) :
                  IF \E j \in (i + 1)..Len(stored) :
                         /\ stored[j].channel = stored[i].channel
                         /\ stored[j].cc = stored[i].cc
                  THEN ~HasId(mappings, stored[i].id)
                  ELSE HasEntry(mappings, stored[i])
           /\ \A k \in 1..Len(mappings) : HasEntry(stored, mappings[k])

\* loadMappings has run on a manager with its callbacks set, over a store in
\* which the first and the third id hold the same pair and the second
\* another one: the first is gone
C16_Witness ==
    /\ midiEvent.op = "loadMappings"
    /\ midiCallbacks # {}
    /\ midiEvent.item =
           ObjectItem(<<Mapping("bpm", 1, 20), Mapping("density", 0, 20),
                        Mapping("brightness", 1, 20)>>)
    /\ mappings = <<Mapping("density", 0, 20), Mapping("brightness", 1, 20)>>

\* the invocations of onParameterChange made by the latest step
ParameterChanges == SelectSeq(midiEmitted, LAMBDA c : c.cb = "onParameterChange")

\* C17: no two ids of the mappings hold the same (channel, cc) pair, and a
\* control-change message invokes onParameterChange for at most one
\* parameter.
C17_UniquePairs ==
    /\ \A i, j \in 1..Len(mappings) :
           i # j => ~(/\ mappings[i].channel = mappings[j].channel
                      /\ mappings[i].cc = mappings[j].cc)
    /\ Len(ParameterChanges) <= 1

\* a control-change message captured in learn mode gave density the pair
\* that bpm held: bpm is gone, brightness keeps its own pair
C17_Witness ==
    /\ midiEvent.op = "handleMessage"
    /\ midiEvent.learning = "density"
    /\ midiEvent.held = {"bpm"}
    /\ midiEvent.status = 177 /\ midiEvent.data1 = 20
    /\ ~HasId(mappings, "bpm")
    /\ HasEntry(mappings, Mapping("density", 1, 20))
    /\ HasId(mappings, "brightness")
    /\ storage = ObjectItem(mappings)

\* C18: send(), as called by a transport control, does not raise, whatever
\* the transport is (null, connecting, open, closing or closed); it returns
\* true exactly when the call wrote the message to the transport and false
\* exactly when the call put it at the end of the queue.
C18_SendResult ==
    [][lastEvent'.type = "control"
       => /\ ~lastEvent'.raised
          /\ lastEvent'.returned = TRUE <=> Sent(lastEvent'.token)
          /\ lastEvent'.returned = FALSE <=> Queued(lastEvent'.token)]_vars

\* stop() was called on a transport that had been open and has failed, its
\* close event still to come: it returned false and STOP is the last
\* message of the queue
C18_Witness ==
    /\ lastEvent.type = "control" /\ lastEvent.token = "STOP"
    /\ lastEvent.returned = FALSE
    /\ ~lastEvent.raised
    /\ ws # 0 /\ readyState[ws] = "CLOSED" /\ ws \in closePending
    /\ wire[ws] # <<>>
    /\ messageQueue # <<>>
    /\ messageQueue[Len(messageQueue)].msg = [playbackControl |-> "STOP"]

\* C19: every outbound musicGenerationConfig message carries a density and
\* a brightness within [0, 1] and a bpm that is a non-negative integer,
\* whatever numbers the call was given.
C19_ClampedConfig ==
    \A i \in 1..Len(Outbound) :
        IsConfigMessage(Outbound[i])
        => LET c == Outbound[i].msg.musicGenerationConfig
           IN  /\ Has(c, "density") => (0 <= c.density /\ c.density <= 100)
               /\ Has(c, "brightness")
                  => (0 <= c.brightness /\ c.brightness <= 100)
               /\ Has(c, "bpm") => (c.bpm >= 0 /\ c.bpm % 100 = 0)

IsPromptsMessage(e) == Has(e.msg, "clientContent")

\* the entry the prompt p is to be sent as: its text, and its weight when it
\* has one, 1.0 otherwise
ExpectedEntry(p) ==
    IF p.type = "string"
    THEN [text |-> p.value, weight |-> 100]
    ELSE [text |-> p.value.text,
          weight |-> IF Has(p.value, "weight") THEN p.value.weight ELSE 100]

\* C20: every call adds one message (no call is skipped), and the latest
\* weightedPrompts message holds one entry per prompt of the latest call, in
\* order, with the prompt's text and the weight given for it (0 included),
\* 1.0 when none was given.
C20_PromptWeights ==
    /\ \A k \in 1..nSent :
           Cardinality({i \in 1..Len(Outbound) : Outbound[i].tag = k}) = 1
    /\ \A i \in 1..Len(Outbound) :
           (IsPromptsMessage(Outbound[i])
            /\ \A j \in 1..Len(Outbound) :
                   IsPromptsMessage(Outbound[j])
                   => Outbound[j].tag <= Outbound[i].tag)
           => LET sent == Outbound[i].msg.clientContent.weightedPrompts
              IN  /\ Len(sent) = Len(currentPrompts)
                  /\ \A n \in 1..Len(sent) :
                         sent[n] = ExpectedEntry(currentPrompts[n])


(***************************************************************************)
(* The AudioPlayer with its calls observed: the specification records the  *)
(* operation of the latest step, with the byte length of a chunk or the    *)
(* number of segments tracked when a stop ran.                             *)
(***************************************************************************)
PlayerCall(op, arg) == [type |-> "player", op |-> op, arg |-> arg]

\* a whole chunk, a chunk with an odd number of samples, a chunk with an
\* odd number of bytes and a chunk of a single sample
CallSizes == {9600, 9602, 9601, 2}

CallsNext ==
    \/ /\ \/ AudioPlayer_init /\ lastEvent' = PlayerCall("init", 0)
          \/ ClockAdvance(ClockStep) /\ lastEvent' = PlayerCall("clock", 0)
          \/ \E byteLength \in CallSizes :
                 /\ AudioPlayer_processAudioChunk(byteLength)
                 /\ lastEvent' = PlayerCall("processAudioChunk", byteLength)
          \/ AudioPlayer_stop /\ lastEvent' = PlayerCall("stop", 0)
          \/ \E id \in 1..MaxStops :
                 /\ StopTimeoutFires(id)
                 /\ lastEvent' = PlayerCall("teardown", Len(scheduledBuffers))
          \/ AudioPlayer_hardStop
                /\ lastEvent' = PlayerCall("hardStop", Len(scheduledBuffers))
       /\ UNCHANGED vizVars
    \/ AudioPlayer_destroy /\ lastEvent' = PlayerCall("destroy", 0)

SpecCalls ==
    Init /\ [][CallsNext /\ UNCHANGED <<sessionVars, midiVars, glueVars>>]_vars

(***************************************************************************)
(* The resets of the AudioPlayer with the volume control: the              *)
(* specification observes whether the latest step was a hardStop(), a      *)
(* teardown or another call, and how many segments a reset found tracked.  *)
(***************************************************************************)
\* 0.5, and values outside the range setVolume clamps to
Volumes == {5000, -10000}

\* a chunk of 50 ms
ResetChunk == (sampleRate \div 20) * channels * 2

ResetNext ==
    \/ /\ \/ /\ \/ AudioPlayer_init
                   \/ ClockAdvance(ClockStep)
                   \/ AudioPlayer_processAudioChunk(ResetChunk)
                   \/ \E value \in Volumes : AudioPlayer_setVolume(value)
                   \/ AudioPlayer_stop
                /\ lastEvent' = PlayerCall("call", 0)
          \/ \E id \in 1..MaxStops :
                 /\ StopTimeoutFires(id)
                 /\ lastEvent' = PlayerCall("teardown", Len(scheduledBuffers))
          \/ AudioPlayer_hardStop
                /\ lastEvent' = PlayerCall("hardStop", Len(scheduledBuffers))
       /\ UNCHANGED vizVars
    \/ AudioPlayer_destroy /\ lastEvent' = PlayerCall("call", 0)

SpecReset ==
    Init /\ [][ResetNext /\ UNCHANGED <<sessionVars, midiVars, glueVars>>]_vars

Called(op) == lastEvent.type = "player" /\ lastEvent.op = op

\* the gain of the context's output is 1.0 with no ramp scheduled
AtUnity(g, t) == GainAt(g, t) = UnityGain.value /\ g.end = -1

\* C21: the step of a hardStop() and the step of a fade-stop's teardown end
\* in the same state: no segment is tracked and the source of every segment
\* that was tracked has been stopped, nextStartTime is 0, the gain of the
\* context, when the player has one, is 1.0 with no ramp scheduled, and
\* isStopping is false.
C21_SameEndState ==
    [][(Called("hardStop")' \/ Called("teardown")')
          => /\ scheduledBuffers' = <<>>
             /\ SourcesOf(scheduledBuffers) \subseteq stoppedSources'
             /\ nextStartTime' = Zero
             /\ audioContext' # "null" => AtUnity(gain', currentTime')
             /\ isStopping' = FALSE]_vars

\* a hardStop() that found segments tracked in the middle of a fade, after
\* a teardown had already run once
C21_Witness ==
    /\ Called("hardStop")
    /\ lastEvent.arg > 0
    /\ teardowns # {}
    /\ timers # {}
    /\ scheduledBuffers = <<>> /\ nextStartTime = Zero
    /\ audioContext # "null" /\ currentTime > 0
    /\ AtUnity(gain, currentTime) /\ isStopping = FALSE


(***************************************************************************)
(* The life cycle of the transports with the callbacks registered: the     *)
(* specification observes which event the latest step handled, on which    *)
(* transport, and the transports acknowledged so far.                      *)
(***************************************************************************)
Lifecycle(kind, t, acked) ==
    [type |-> "lifecycle", kind |-> kind, transport |-> t, acked |-> acked]

Step(kind, t) == Lifecycle(kind, t, Acked(lastEvent))

LifecycleNext ==
    \/ (\E event \in {"stateChange", "error", "close"} : LyriaClient_on(event))
          /\ lastEvent' = Step("call", 0)
    \/ LyriaClient_connect /\ lastEvent' = Step("call", 0)
    \/ LyriaClient_disconnect /\ lastEvent' = Step("call", 0)
    \/ \E t \in Transports : ws_onopen(t) /\ lastEvent' = Step("open", t)
    \/ \E t \in Transports, data \in HandshakePayloads :
           /\ ws_onmessage_string(t, data)
           /\ lastEvent' = Lifecycle("message", t, AckedWith(t, data))
    \/ \E t \in Transports : ws_onerror(t) /\ lastEvent' = Step("error", t)
    \/ \E t \in Transports : ws_onclose(t) /\ lastEvent' = Step("close", t)

SpecLifecycle ==
    ClientStart /\ [][LifecycleNext /\ UNCHANGED <<playerVars, midiVars, vizVars, glueVars>>]_vars

Event(kind, t) ==
    /\ lastEvent.type = "lifecycle"
    /\ lastEvent.kind = kind
    /\ lastEvent.transport = t

\* C22: the error event of a transport on which the setup acknowledgement
\* had been received invokes the error callback, when one is registered,
\* settles no connect() promise and leaves isConnected, isSetupComplete and
\* isPlaying as they were.
C22_ErrorAfterHandshake ==
    [][\A t \in Transports :
          (Event("error", t)' /\ t \in Acked(lastEvent))
             => /\ emitted' = notifyError("Connection error - check your API key")
                /\ promise' = promise
                /\ UNCHANGED <<isConnected, isSetupComplete, isPlaying>>]_vars


\* C30: the close event of a transport, in whatever state the session is,
\* leaves isConnected, isPlaying and isSetupComplete false, invokes the
\* state-change callback once with 'disconnected' and then the close
\* callback once (each when registered), and rejects the promise of the
\* connect() that opened the transport when it is still pending.
C30_CloseEvent ==
    [][\A t \in Transports :
          Event("close", t)'
             => /\ isConnected' = FALSE
                /\ isPlaying' = FALSE
                /\ isSetupComplete' = FALSE
                /\ emitted' = notifyStateChange("disconnected") \o notifyClose
                /\ promise[t] = "pending" => promise'[t] = "rejected"]_vars


\* the number of copies of the caller message submitted as number tag among
\* the messages written or still queued
Copies(tag) == Cardinality({i \in 1..Len(Outbound) : Outbound[i].tag = tag})

\* C23: at any time every message a caller operation passed to send() is
\* either on a wire exactly once or in the queue exactly once; and the step
\* in which the handshake completes leaves the queue empty, with the
\* messages that were queued written to the transport.
C23_NoLossNoDuplication ==
    [][/\ \A tag \in 1..nSent' : Copies(tag)' = 1
       /\ (~isSetupComplete /\ isSetupComplete')
             => /\ messageQueue' = <<>>
                /\ \A i \in 1..Len(messageQueue) :
                       \E t \in Transports :
                           \E j \in 1..Len(wire'[t]) :
                               wire'[t][j] = messageQueue[i]]_vars


\* no tracked segment ends before the clock
NoneBehind(buffers, now) ==
    \A i \in 1..Len(buffers) : ~Before(buffers[i].endTime, now)

\* the call processAudioChunk(pcmData) raises: it is not dropped and the
\* conversion of pcmData raises
Raises(byteLength) ==
    audioContext # "null" /\ ~isStopping /\ ChunkRaises(byteLength)

\* C24 as stated: after every processAudioChunk call that returns, dropped
\* or not, no tracked segment ends before the clock at that call.
C24_PrunedOnEveryCall ==
    [][(Called("processAudioChunk")' /\ ~Raises(lastEvent'.arg))
          => NoneBehind(scheduledBuffers', Seconds(currentTime))]_vars

\* C24, amended: after a processAudioChunk call that schedules a segment no
\* tracked segment ends before the clock read by that call; a call that is
\* dropped (no context, a fade in progress) or that raises leaves the list
\* as it was, and a teardown or hardStop() empties it.
C24_PrunedWhenScheduled ==
    [][/\ (Called("processAudioChunk")' /\ nChunks' # nChunks)
             => /\ NoneBehind(scheduledBuffers', Seconds(currentTime))
                /\ Len(scheduledBuffers') <= Len(scheduledBuffers) + 1
       /\ (Called("processAudioChunk")' /\ nChunks' = nChunks)
             => scheduledBuffers' = scheduledBuffers
       /\ (Called("teardown")' \/ Called("hardStop")')
             => scheduledBuffers' = <<>>]_vars

\* a scheduling call after which fewer segments are tracked than were
\* scheduled, none of them having been stopped
C24_Witness ==
    /\ Called("processAudioChunk")
    /\ nChunks >= 2
    /\ stoppedSources = {}
    /\ scheduledBuffers # <<>>
    /\ Len(scheduledBuffers) < nChunks
    /\ scheduledBuffers[Len(scheduledBuffers)].endTime = nextStartTime
    /\ NoneBehind(scheduledBuffers, Seconds(currentTime))


\* C25: the init() call that finds no context builds the context and the
\* gain node, at unity gain; every init() call that finds a context changes
\* nothing: the context and its state, the nodes, the gain, the clock,
\* nextStartTime and the tracked segments are as before.
C25_InitIdempotent ==
    [][Called("init")'
          => IF audioContext = "null"
             THEN /\ audioContext' # "null"
                  /\ gainNode'
                  /\ gain' = UnityGain
                  /\ UNCHANGED <<nextStartTime, scheduledBuffers>>
             ELSE UNCHANGED playerVars]_vars

\* an init() call made while segments are tracked and the clock has moved
C25_Witness ==
    /\ Called("init")
    /\ audioContext # "null"
    /\ currentTime > 0
    /\ scheduledBuffers # <<>>
    /\ Before(Zero, nextStartTime)


(***************************************************************************)
(* The visualization loop on its own.                                      *)
(***************************************************************************)
SpecViz ==
    Init /\ [][VizNext /\ UNCHANGED <<clientVars, playerVars, midiVars, glueVars>>]_vars

\* C26: a callback that was registered when a stopVisualization() returned,
\* whether the application or the callback itself called it, is not invoked
\* by any later step: not by a frame request that was pending or racing,
\* and not by a later startVisualization, which invokes the callback it
\* registers.
C26_NoInvocationAfterStop ==
    [][vizEvent'.invoked # 0 => vizEvent'.invoked \notin clearedCallbacks]_vars

\* a frame request has run after a stopVisualization() had returned, and
\* found no callback to invoke
C26_Witness ==
    /\ vizEvent.op = "frame"
    /\ vizEvent.invoked = 0
    /\ clearedCallbacks # {}
    /\ visualizationCallback = 0
    /\ frameRequests # {}


\* a chunk of malformed length: an odd number of bytes, or a number of
\* 16-bit samples that is not a multiple of the channel count
MalformedLength(byteLength) ==
    byteLength % 2 # 0 \/ (byteLength \div 2) % channels # 0

\* C27: a processAudioChunk call with a chunk of malformed length, made
\* when chunks are accepted, either raises and leaves the whole scheduler
\* state, nextStartTime and the tracked list included, as it was, or
\* schedules a segment of a whole number of frames, every frame of it with
\* a sample of the chunk for each channel, tracked with the end time that
\* nextStartTime takes.
C27_MalformedLength ==
    [][(/\ Called("processAudioChunk")'
        /\ MalformedLength(lastEvent'.arg)
        /\ audioContext # "null" /\ ~isStopping)
          => IF Raises(lastEvent'.arg)
             THEN UNCHANGED playerVars
             ELSE LET frames == lastSegment'.endTime.frame
                                   - lastSegment'.start.frame
                      n == Len(scheduledBuffers')
                  IN  /\ nChunks' = nChunks + 1
                      /\ frames > 0
                      /\ frames * channels * 2 <= lastEvent'.arg
                      /\ (frames + 1) * channels * 2 > lastEvent'.arg
                      /\ nextStartTime' = lastSegment'.endTime
                      /\ n > 0
                      /\ scheduledBuffers'[n].endTime = nextStartTime']_vars

\* a chunk of 4801 samples has been scheduled as a segment of 2400 frames
C27_Witness ==
    /\ Called("processAudioChunk")
    /\ lastEvent.arg = 9602
    /\ audioContext # "null" /\ ~isStopping
    /\ lastSegment.endTime.frame - lastSegment.start.frame = 2400
    /\ nextStartTime = lastSegment.endTime
    /\ scheduledBuffers # <<>>


\* the latest step was an operation that changes the mappings: an
\* assignMapping, clearMapping or clearAllMappings call, or a control change
\* handled in learn mode (which goes through assignMapping)
Mutated ==
    \/ midiEvent.op \in {"assignMapping", "clearMapping", "clearAllMappings"}
    \/ /\ midiEvent.op = "handleMessage"
       /\ MessageType(midiEvent.status) = 176
       /\ midiEvent.learning # "none"

\* C28: after every operation that changes the mappings and whose write
\* the store accepts, the store holds the serialised current mappings and
\* nothing else, and what a manager constructed over that store loads is
\* the current mappings, entry for entry and in the same order; when the
\* write raises, the store keeps the item it held.
C28_StoreMirrorsAcceptedWrites ==
    [][Mutated'
       => IF midiEvent'.saved = "stored"
          THEN /\ storage' = ObjectItem(mappings')
               /\ loadMappings(storage', <<>>) = mappings'
          ELSE storage' = storage]_vars

\* C28 as stated: after every operation that changes the mappings the
\* store holds the serialised current mappings, whatever became of the
\* write.
C28_StoreMirrorsMappings ==
    Mutated => /\ storage = ObjectItem(mappings)
               /\ loadMappings(storage, <<>>) = mappings

\* after a write that raised, a clearMapping has rewritten a store that
\* still holds other mappings
C28_Witness ==
    /\ midiEvent.op = "clearMapping"
    /\ midiEvent.saved = "stored"
    /\ nStoreFailures = 1
    /\ mappings # <<>>
    /\ ~HasId(mappings, midiEvent.id)
    /\ storage = ObjectItem(mappings)
    /\ loadMappings(storage, <<>>) = mappings


(***************************************************************************)
(* The change handlers of the application on their own.                    *)
(***************************************************************************)
\* the application just loaded: its constructor has called init(), which
\* builds the context of the player before its first await
AppStart ==
    /\ ClientConstructed("key")
    /\ PlayerInitialised /\ VizInit /\ GlueInit /\ MidiConstructed(NoItem)

SpecGlue ==
    AppStart
    /\ [][(\/ GlueNext
           \/ /\ \/ ContextRequestCompletes
                 \/ \E id \in 1..MaxStops : StopTimeoutFires(id)
              /\ UNCHANGED glueVars)
          /\ UNCHANGED <<clientVars, midiVars, vizVars>>]_vars

\* the positions of the wire that hold a message of the kind written for
\* the handler call k
Positions(kind, k) ==
    {i \in 1..Len(sessionWire) :
         sessionWire[i].kind = kind /\ sessionWire[i].change = k}

\* the handler calls of applyBpmChange and handleScaleChange
TempoOrScale == {k \in 1..Len(changes) : changes[k].field \in {"bpm", "scale"}}

\* what is on the wire for the change k, by where its handler is
WrittenFor(k) ==
    LET updates == Positions("musicGenerationConfig", k)
        resets  == Positions("RESET_CONTEXT", k)
    IN  /\ Cardinality(resets) <= 1
        /\ \A r \in resets : \E u \in updates : u < r
        /\ changes[k].at = "done"
              => /\ Cardinality(updates) = 1 /\ Cardinality(resets) = 1
                 /\ changes[k].reset = "written"
        /\ changes[k].reset = "written" => changes[k].at = "done"
        /\ changes[k].at = "awaiting"
              => Cardinality(updates) = 1 /\ resets = {}
        /\ changes[k].at = "failed" /\ changes[k].update # "raised"
              => Cardinality(updates) = 1 /\ resets = {}
        /\ changes[k].at = "returned" \/ changes[k].update = "raised"
              => updates = {} /\ resets = {}

\* C29: for every tempo or scale change, in whatever order the handlers of
\* concurrent changes run: RESET_CONTEXT is written at most once and only
\* after the update of that change; a handler that returned or whose update
\* raised has written neither; and when a handler resumes after its update,
\* it writes RESET_CONTEXT, on the session in place at that moment, exactly
\* when the update's promise was resolved, there is a session in place and
\* the call of resetContext on it does not raise, and writes nothing
\* otherwise.
C29_ResetWhenSessionInPlace ==
    [][/\ \A k \in 1..Len(changes') :
              changes'[k].field \in {"bpm", "scale"} => WrittenFor(k)'
       /\ \A k \in TempoOrScale :
              (changes[k].at = "awaiting" /\ changes'[k].at # "awaiting")
              => /\ changes'[k].update \in {"resolved", "rejected"}
                 /\ changes'[k].update = "rejected"
                        => changes'[k].reset = "none"
                 /\ (changes'[k].update = "resolved" /\ appSession = 0)
                        => changes'[k].reset = "raised"
                 /\ IF changes'[k].reset = "written"
                    THEN /\ sessionWire' =
                                Append(sessionWire,
                                       ResetContext(appSession, k))
                         /\ appSession # 0
                         /\ changes'[k].update = "resolved"
                         /\ changes'[k].at = "done"
                    ELSE /\ sessionWire' = sessionWire
                         /\ changes'[k].at = "failed"]_vars

\* C29 as stated: RESET_CONTEXT is written after the update, never before
\* it, and by every handler whose update succeeded.
C29_ResetAfterUpdate ==
    \A k \in TempoOrScale :
        /\ \A r \in Positions("RESET_CONTEXT", k) :
               \E u \in Positions("musicGenerationConfig", k) : u < r
        /\ (changes[k].at # "awaiting" /\ changes[k].update = "resolved")
               => Cardinality(Positions("RESET_CONTEXT", k)) = 1

\* two changes ran concurrently on the session of the first connection: the
\* update of the second was written between the update and the
\* RESET_CONTEXT of the first
C29_Witness ==
    /\ Len(sessionWire) = 6
    /\ sessionWire[3] = ConfigUpdate(1, 1, "bpm")
    /\ sessionWire[4] = ConfigUpdate(1, 2, "scale")
    /\ sessionWire[5] = ResetContext(1, 1)
    /\ sessionWire[6] = ResetContext(1, 2)


\* C31: processQueue terminates whenever it runs: no reachable step leaves
\* the flush loop running for ever.
C31_ProcessQueueTerminates == ~hung


\* transport t has been closed by the client and replaced: this.ws holds a
\* transport opened by a later connect()
Superseded(t) == ws # 0 /\ t # ws /\ readyState[t] = "CLOSING"

\* C32: an event of a superseded transport leaves the promise of the
\* connect() that opened the current transport as it was, and leaves
\* isConnected, isSetupComplete and isPlaying as they were.
C32_SupersededTransport ==
    [][\A t \in Transports :
          (/\ Superseded(t)
           /\ \E kind \in {"close", "error", "message"} : Event(kind, t)')
             => /\ promise'[ws] = promise[ws]
                /\ UNCHANGED <<isConnected, isSetupComplete, isPlaying>>]_vars


\* C33: in every reachable state isPlaying implies isSetupComplete and
\* isSetupComplete implies isConnected.
C33_FlagOrder ==
    /\ isPlaying => isSetupComplete
    /\ isSetupComplete => isConnected


\* nextStartTime is the end of the segment scheduled last, which is the last
\* one tracked, or 0 when a reset has emptied the list
TimelineEnd ==
    nextStartTime = IF scheduledBuffers = <<>> THEN Zero
                    ELSE scheduledBuffers[Len(scheduledBuffers)].endTime

\* C34: the tracked segments never overlap: a segment, when it is scheduled,
\* starts no earlier than the clock the call read, no earlier than the end
\* of every segment tracked at that moment and no earlier than the end of
\* the segment scheduled before it since the last reset; nextStartTime is
\* always the end of the segment scheduled last, or 0 after a reset.
C34_Timeline ==
    /\ TimelineEnd
    /\ [][/\ TimelineEnd'
          /\ nChunks' = nChunks + 1
             => /\ ~Before(lastSegment'.start, Seconds(currentTime))
                /\ ~Before(lastSegment'.start, nextStartTime)
                /\ \A i \in 1..Len(scheduledBuffers) :
                       ~Before(lastSegment'.start, scheduledBuffers[i].endTime)
                /\ Before(lastSegment'.start, lastSegment'.endTime)
                /\ nextStartTime' = lastSegment'.endTime
          /\ (nChunks' = nChunks /\ nextStartTime' # nextStartTime)
             => nextStartTime' = Zero /\ scheduledBuffers' = <<>>]_vars

\* a teardown has reset the timeline and two segments scheduled since the
\* last reset are tracked: the later one starts where the one before it
\* ends, and nextStartTime is its end
C34_Witness ==
    /\ teardowns # {}
    /\ ~resetSince
    /\ Len(scheduledBuffers) >= 2
    /\ Before(Zero, lastSegment.prevEnd)
    /\ lastSegment.start = lastSegment.prevEnd
    /\ Before(Zero, lastSegment.now)
    /\ nextStartTime = lastSegment.endTime


\* C35: at most one frame request is pending in every reachable state, so
\* that one display frame runs animateVisualization, and with it the
\* callback, at most once; and when stopVisualization() has returned no
\* frame request is pending.
C35_SingleFrameLoop ==
    /\ Cardinality(frameRequests) <= 1
    /\ vizEvent.op = "stopVisualization" => frameRequests = {}


\* getState(): the flags and copies of the retained config and prompts
LyriaClient_getState ==
    [isConnected |-> isConnected, isPlaying |-> isPlaying,
     isSetupComplete |-> isSetupComplete,
     config |-> Spread(currentConfig, << >>),
     prompts |-> currentPrompts]

\* the outbound message e is the latest musicGenerationConfig message that
\* carries the field f
LastSent(e, f) ==
    /\ IsConfigMessage(e)
    /\ Has(e.msg.musicGenerationConfig, f)
    /\ \A j \in 1..Len(Outbound) :
           (IsConfigMessage(Outbound[j])
            /\ Has(Outbound[j].msg.musicGenerationConfig, f))
           => Outbound[j].tag <= e.tag

\* C36: for bpm, density and brightness, the config reported by getState()
\* holds the value carried by the latest outbound musicGenerationConfig
\* message that has the field: the clamped or rounded value, not the number
\* the call was given.
C36_RetainedAsSent ==
    \A i \in 1..Len(Outbound) :
        \A f \in {"bpm", "density", "brightness"} :
            LastSent(Outbound[i], f)
            => LyriaClient_getState.config[f]
                   = Outbound[i].msg.musicGenerationConfig[f]


(***************************************************************************)
(* Opening transports with messages waiting: connections made one after    *)
(* the other or over each other, play() calls before, between and after    *)
(* them, and the acknowledgement that flushes the queue.                   *)
(***************************************************************************)
OpeningNext ==
    \/ LyriaClient_connect
    \/ LyriaClient_play
    \/ LyriaClient_disconnect
    \/ \E t \in Transports : ws_onopen(t)
    \/ \E t \in Transports :
           ws_onmessage_string(t, Text([setupComplete |-> SetupAck]))
    \/ \E t \in Transports : ws_onclose(t)

SpecOpening ==
    ClientStart /\ [][OpeningNext /\ UNCHANGED <<lastEvent, playerVars, midiVars, vizVars, glueVars>>]_vars

IsSetupMessage(e) == e.tag = 0 /\ e.msg = [setup |-> [model |-> LYRIA_MODEL]]

\* C37: whatever the queue holds, the first message on the wire of every
\* transport is the setup message, and the transport that opens as the
\* client's current one has the setup message, and nothing else, written to
\* it by its open handler.
C37_SetupFirst ==
    [][\A t \in Transports :
           /\ wire'[t] # <<>> => IsSetupMessage(wire'[t][1])
           /\ (ws = t /\ readyState[t] = "CONNECTING" /\ readyState'[t] = "OPEN")
              => (Len(wire'[t]) = 1 /\ messageQueue' = messageQueue)]_vars

\* the second transport has opened, after the first was closed, with a
\* caller's message waiting in the queue: it carries the setup message
C37_Witness ==
    /\ readyState[1] \in {"CLOSING", "CLOSED"}
    /\ wire[1] # <<>>
    /\ ws = 2
    /\ readyState[2] = "OPEN"
    /\ Len(wire[2]) = 1
    /\ messageQueue # <<>>
    /\ messageQueue[1].tag > 0


\* the invocations of onLearnComplete made by the latest step
LearnCompletions == SelectSeq(midiEmitted, LAMBDA c : c.cb = "onLearnComplete")

\* C38: a message handled in learn mode, when it is a control change,
\* assigns its (channel, cc) to the parameter being learned, ends learn
\* mode, invokes onLearnComplete once (when that callback is set) with the
\* parameter, the cc and the channel, and invokes nothing else, not
\* onParameterChange either; when it is not a control change it leaves
\* learn mode, the mappings and the store as they are and invokes nothing.
C38_LearnCapture ==
    [][(midiEvent'.op = "handleMessage" /\ learning # "none")
       => LET status  == midiEvent'.status
              channel == ChannelOf(status)
              cc      == midiEvent'.data1
          IN  IF MessageType(status) = 176
              THEN /\ HasEntry(mappings', Mapping(learning, channel, cc))
                   /\ \A k \in 1..Len(mappings') :
                          mappings'[k].id = learning
                          => mappings'[k] = Mapping(learning, channel, cc)
                   /\ learning' = "none"
                   /\ midiEmitted' =
                          (IF "onLearnComplete" \in midiCallbacks
                           THEN <<MidiCall("onLearnComplete",
                                           <<learning, cc, channel>>)>>
                           ELSE <<>>)
              ELSE /\ learning' = learning
                   /\ mappings' = mappings
                   /\ storage' = storage
                   /\ midiEmitted' = <<>>]_vars

\* with both callbacks set, a control change arrived in learn mode for
\* density, carrying the pair brightness held: density has the pair, learn
\* mode is over and one onLearnComplete was invoked
C38_Witness ==
    /\ midiEvent.op = "handleMessage"
    /\ midiEvent.learning = "density"
    /\ midiEvent.status = 176 /\ midiEvent.data1 = 20 /\ midiEvent.data2 = 127
    /\ midiEvent.held = {"brightness"}
    /\ {"onLearnComplete", "onParameterChange"} \subseteq midiCallbacks
    /\ learning = "none"
    /\ HasEntry(mappings, Mapping("density", 0, 20))
    /\ Len(LearnCompletions) = 1
    /\ ParameterChanges = <<>>

====
